---- MODULE Spec2Model ----
(***************************************************************************)
(* State-machine model of the token ingestion pipeline                     *)
(* (app/tasks/fetch_and_store.py), the risk adapter                        *)
(* (app/services/rugcheck_service.py) and the supervising scheduler        *)
(* with its background poll task (app/tasks/scheduler.py).                 *)
(*                                                                         *)
(* The specifications share the actions:                                   *)
(*   Spec       the main thread of a run in which no signal arrives before *)
(*              run() and the poll task is not scheduled, over the full    *)
(*              pipeline inputs;                                           *)
(*   SchedSpec  the main thread and the signal handler at any time after   *)
(*              construction, over a feed of at most SchedProfiles         *)
(*              profiles;                                                  *)
(*   PollSpec   the main thread, the signal handler and the poll task,     *)
(*              interleaved, over a feed that lists no profile             *)
(*              (PollFairSpec adds the fairness of the two threads);       *)
(*   ClockSpec  as Spec, on a host whose local time may differ from UTC    *)
(*              (under every other specification local time is UTC);       *)
(*   FilterSpec calls of the pure function passes_filters;                 *)
(*   GateSpec   the pipeline's missing-metric check and passes_filters on  *)
(*              the same metrics;                                          *)
(*   PairSpec   the scan for the pair with the highest liquidity;          *)
(*   RiskSpec   calls of assess_token_risk and of the four computations of *)
(*              the risk level;                                            *)
(*   TrendSpec  calls of analyze_pumped_tokens on a table that holds rows  *)
(*              of identities sharing an address (the table has no         *)
(*              uniqueness constraint, so several rows of one identity     *)
(*              are among its contents);                                   *)
(*   RankSpec   calls of analyze_pumped_tokens on a table that holds rows  *)
(*              of two addresses;                                          *)
(*   MarketSpec as Spec, over a feed that also reports negative amounts    *)
(*              and filters with negative minimums;                        *)
(*   PumpSpec   as Spec, over a feed whose pairs reach the volume          *)
(*              run_analysis asks for;                                     *)
(*   FloatSpec  calls of safe_float on strings, numbers and None;          *)
(*   SendSpec   calls of TelegramNotifier.send_message;                    *)
(*   RoundTripSpec  a price string of the feed converted, inserted and     *)
(*              read back.                                                 *)
(*                                                                         *)
(* Monetary values are floats in the program; the pipeline model uses      *)
(* small integers, and the conversion models decimal coefficients and      *)
(* exponents.  Wall-clock readings are values of `clock`.                  *)
(***************************************************************************)
EXTENDS Integers, Sequences, FiniteSets, TLC

(***************************************************************************)
(* Bounds of the model.  Under Spec cycles start at clock readings         *)
(* 0..MaxClock; the                                                        *)
(* feed lists at most MaxProfiles profiles over the whole run and at most  *)
(* MaxPairs pairs per token.                                               *)
(***************************************************************************)
MaxClock == 2
MaxProfiles == 2
MaxPairs == 1
\* Under SchedSpec cycles start at clock readings 0..SchedClock and the
\* feed lists at most SchedProfiles profiles in all.
SchedClock == 3
SchedProfiles == 1
\* Under PollSpec at most MaxUpdates inbound updates wait for the bot.
MaxUpdates == 1
\* passes_filters is called with amounts and bounds in 0..MaxAmount.
MaxAmount == 2
\* Under ClockSpec, MarketSpec and PumpSpec cycles start at clock readings
\* 0..ClockHorizon.
ClockHorizon == 2
\* The best-pair scan is run on lists of at most MaxPairList pairs with
\* liquidity amounts up to MaxLiquidity.
MaxPairList == 3
MaxLiquidity == 2
\* The trend detector is run on tables of at most MaxRows rows of the
\* identities that share an address, and on tables of at most MaxRanked
\* rows of two addresses.
MaxRows == 3
MaxRanked == 4
\* The risk scores and maximum scores explored lie within MaxOffset of the
\* edges of the risk bands.
MaxOffset == 1
\* send_message is called with max_retries in 0..MaxRetries.
MaxRetries == 3
\* safe_float is called on every string of at most MaxChars characters.
MaxChars == 4

(***************************************************************************)
(* Program constants.                                                      *)
(***************************************************************************)
Inf == 1000000
DEFAULT_MAX_SCORE == 1000
max_consecutive_failures == 3
error_cooldown_sec == 30
interval_sec == 600
\* run_analysis: the arguments it passes to analyze_pumped_tokens.
analysis_lookback_minutes == 360
analysis_min_price_increase_percent == 50
analysis_min_volume_usd == 1000
\* _message_loop: time.sleep(1) after a poll, time.sleep(5) after an error.
poll_delay_sec == 1
poll_error_delay_sec == 5
\* decimal: Emax of the default context; float: the largest decimal
\* exponent of a finite double.
DecimalEmax == 999999
FloatMaxExp == 308
\* The significant decimal digits a double always carries: a Python float,
\* and a Float column of SQLite (an 8-byte REAL).
DoubleDigits == 15

None == -1
\* A liquidity.usd that float() cannot convert, and a negative amount.
Unparseable == -2
NegativeAmount == -3

(***************************************************************************)
(* Input domains.                                                          *)
(***************************************************************************)
Identities ==
  { [chain_id |-> "solana", token_address |-> "A"],
    [chain_id |-> "eth",    token_address |-> "A"] }

\* A pair as the feed reports it: liquidity.usd, priceUsd, volume.h24.
\* None stands for a missing or null field.
PairSet ==
  { [liq |-> None, price |-> 1, vol |-> 1],
    [liq |-> 1,    price |-> 0, vol |-> 1],
    [liq |-> 1,    price |-> 1, vol |-> 1],
    [liq |-> 2,    price |-> 2, vol |-> 1] }

SeqsUpTo(S, n) == UNION { [1..k -> S] : k \in 0..n }

\* The inbound updates of the bot, in the order of their update_id
\* (1, 2, ...): an update that holds a "message" key, or one that does not
\* (an edited message, a channel post).
UpdateKinds == { "message", "other" }
Inboxes == SeqsUpTo(UpdateKinds, MaxUpdates)

\* What a stored row can hold as price_usd and volume_usd: a missing, zero
\* or negative price, the prices 5 and 8 (a rise of 60 percent); every
\* price with the volume 1000, and the price 8 with no volume.
Quotes ==
  { [price_usd |-> p, volume_usd |-> 1000] :
      p \in { None, 0, NegativeAmount, 2 * NegativeAmount, 5, 8 } }
    \cup { [price_usd |-> 8, volume_usd |-> 0] }
Observations ==
  { [chain_id |-> a.chain_id, token_address |-> a.token_address,
     price_usd |-> q.price_usd, volume_usd |-> q.volume_usd] :
      a \in Identities, q \in Quotes }

\* Rows of two addresses on one chain, with positive prices.
RankedObservations ==
  { [chain_id |-> "solana", token_address |-> t, price_usd |-> p,
     volume_usd |-> 1000] : t \in { "A", "B" }, p \in { 5, 8, 10 } }

\* The table holding the observations obs, written one after the other:
\* row i was written at time i.
TableOf(obs) ==
  { [id |-> i, chain_id |-> obs[i].chain_id,
     token_address |-> obs[i].token_address, price_usd |-> obs[i].price_usd,
     volume_usd |-> obs[i].volume_usd, liquidity_usd |-> 1,
     risk_score |-> 500, timestamp |-> i,
     token_name |-> << obs[i].token_address, i >>] : i \in DOMAIN obs }

\* One reading of the clock is one interval_sec; the lookback of
\* run_analysis and an hour, in readings.
LookbackReadings == (analysis_lookback_minutes * 60) \div interval_sec
ReadingsPerHour == 3600 \div interval_sec

\* The hosts explored: local time is UTC, or eight hours behind it.
UtcOffsets == { 0, (0 - 8) * ReadingsPerHour }

\* What liquidity.usd of a pair can hold, and the pairs the scan is run on.
RawLiquidities == { None, Unparseable, NegativeAmount } \cup 0 .. MaxLiquidity
RawPairs == { [liq |-> l, price |-> 1, vol |-> 1] : l \in RawLiquidities }

Feeds(n) == SeqsUpTo(Identities, n)
\* Pairs that report a negative liquidity, price or volume, and one that
\* reports none.
SignedPairSet ==
  { [liq |-> NegativeAmount, price |-> 1, vol |-> 1],
    [liq |-> 1, price |-> NegativeAmount, vol |-> 1],
    [liq |-> 1, price |-> 1, vol |-> NegativeAmount],
    [liq |-> 1, price |-> 1, vol |-> 1] }

\* Pairs whose volume reaches the minimum of run_analysis, at the prices 1
\* and 2, and one whose volume does not.
PumpPairSet ==
  { [liq |-> 1, price |-> 1, vol |-> analysis_min_volume_usd],
    [liq |-> 1, price |-> 2, vol |-> analysis_min_volume_usd],
    [liq |-> 1, price |-> 2, vol |-> 1] }

\* get_token_pairs: the lists of pairs it can return.
PairLists(pairs) == SeqsUpTo(pairs, MaxPairs)

\* config["filters"]: the four bounds read by passes_filters.
DefaultFilters ==
  [min_price_usd |-> 0, max_price_usd |-> Inf,
   min_volume_usd |-> 0, min_liquidity_usd |-> 0]
TightFilters ==
  [min_price_usd |-> 2, max_price_usd |-> 2,
   min_volume_usd |-> 1, min_liquidity_usd |-> 2]

\* Filters whose minimum price and volume are negative.
OpenFilters ==
  [min_price_usd |-> 2 * NegativeAmount, max_price_usd |-> Inf,
   min_volume_usd |-> 2 * NegativeAmount, min_liquidity_usd |-> 0]

\* The configurations explored.  rugcheck is None when the section is
\* empty, else its max_risk_score; telegram tells whether the section holds
\* usable credentials.
Configs ==
  { [filters |-> DefaultFilters, rugcheck |-> DEFAULT_MAX_SCORE,
     telegram |-> TRUE],
    [filters |-> TightFilters, rugcheck |-> DEFAULT_MAX_SCORE,
     telegram |-> FALSE],
    [filters |-> DefaultFilters, rugcheck |-> None, telegram |-> TRUE] }

\* What one call of the risk collaborator can produce
\* (failure is "" and score the reported score when the call succeeds).
RiskFailures == { "timeout", "http_error", "malformed", "no_score" }
Scores == { 1000, 1001 }
RiskOutcomes ==
  { [failure |-> f, score |-> None] : f \in RiskFailures }
    \cup { [failure |-> "", score |-> n] : n \in Scores }

\* The lower edges of RISK_LEVELS, and the scores around them.
BandEdges == { 0, 500, 750, 1000 }
ScoreSet ==
  { n \in { e + d : e \in BandEdges, d \in (0 - MaxOffset) .. MaxOffset } :
      n >= 0 }
RiskReports ==
  { [failure |-> f, score |-> None] : f \in RiskFailures }
    \cup { [failure |-> "", score |-> n] : n \in ScoreSet }

\* priceUsd as the feed reports it: 0.000000123456789, 123456789, 1.5,
\* 0.10, 1.5k, and a text that is no number.
PriceStrings ==
  { << "0", ".", "0", "0", "0", "0", "0", "0", "1", "2", "3", "4", "5", "6",
       "7", "8", "9" >>,
    << "1", "2", "3", "4", "5", "6", "7", "8", "9" >>,
    << "1", ".", "5" >>,
    << "0", ".", "1", "0" >>,
    << "1", ".", "5", "k" >>,
    << "-" >> }

\* volume.h24 and liquidity.usd as the feed reports them: JSON numbers.
JsonNumbers ==
  { [coef |-> 0, exp |-> 0], [coef |-> 15, exp |-> 0 - 1],
    [coef |-> 987654321, exp |-> 0 - 2] }

\* What one session.post and raise_for_status can do, and what the posts of
\* one call of send_message would do, attempt by attempt.
PostOutcomes == { "ok", "http_error", "timeout" }
PostScripts == [1 .. MaxRetries -> PostOutcomes]

\* The messages handed to send_message.
Messages == { "", "text" }

\* The characters of the strings safe_float is called on, and strings at
\* the ends of the range of Decimal and of float.
Chars == { "1", "5", ".", "e", "-", " ", "k", "M", "b" }
Literals ==
  { << "1", "e", "4", "0", "0" >>,
    << "1", "e", "4", "0", "0", "k" >>,
    << "1", "e", "9", "9", "9", "9", "9", "9" >>,
    << "1", "e", "9", "9", "9", "9", "9", "9", "k" >> }
Strings == SeqsUpTo(Chars, MaxChars) \cup Literals

\* A Python value handed to safe_float: None, a str, or a number (an int or
\* a float, denoting coef * 10^exp).
NoneValue == [type |-> "none", chars |-> << >>, coef |-> 0, exp |-> 0]
StrValue(s) == [type |-> "str", chars |-> s, coef |-> 0, exp |-> 0]
NumberValue(coef, exp) ==
  [type |-> "number", chars |-> << >>, coef |-> coef, exp |-> exp]
RawValues ==
  { NoneValue } \cup { StrValue(s) : s \in Strings }
    \cup { NumberValue(c, x) : c \in { 0, 5, 0 - 15 }, x \in { 0 - 1, 0 } }

\* The defaults the callers pass: None (TokenMetrics.from_dict) and 0 (the
\* pipeline).
Defaults == { NoneValue, NumberValue(0, 0) }

VARIABLES
  config,           \* the application configuration
  horizon,          \* the last clock reading a cycle may begin at: a bound
                    \* of the exploration, fixed from the start
  utc_offset,       \* the host's local time minus UTC, fixed from the
                    \* start
  market,           \* the pairs the feed can report for a token, fixed
                    \* from the start
  outcomes,         \* history: how each cycle so far ended, in order
  clock,            \* current wall-clock reading, in UTC
  pc,               \* position of the main thread
  health,           \* SchedulerHealth
  db,               \* committed rows of token_snapshots
  notifier,         \* the pipeline's notifier for this cycle was built
  profiles,         \* profiles the loop has still to take
  ctx,              \* locals of the per-profile loop body
  counters,         \* tokens_processed / filtered / stored / updated
  alerts,           \* history: "new asset" sends attempted per identity
  fed,              \* history: profiles listed by the feed so far
  cycle,            \* history: what happened so far in this cycle
  task_runner,      \* TaskRunner: notifier, _should_stop, _message_thread
  signalled,        \* history: a shutdown signal has been handled
  trail,            \* history: notifications and sleeps of the loop since
                    \* the last cycle began
  critical,         \* history: critical notifications emitted so far
  call              \* a call of a pure function: arguments and result

vars == << config, horizon, utc_offset, market, outcomes, clock, pc, health, db, notifier, profiles, ctx, counters,
           alerts, fed, cycle, task_runner, signalled, trail, critical,
           call >>

(***************************************************************************)
(* Values.                                                                 *)
(***************************************************************************)
IdentityOf(r) == [chain_id |-> r.chain_id, token_address |-> r.token_address]

NoProfile == [chain_id |-> "", token_address |-> ""]

NoCtx ==
  [profile |-> NoProfile, existing |-> None, price_usd |-> 0,
   volume_usd |-> 0, liquidity_usd |-> 0, is_safe |-> FALSE, score |-> None]

ZeroCounters ==
  [tokens_processed |-> 0, tokens_filtered |-> 0,
   tokens_stored |-> 0, tokens_updated |-> 0]

\* listed: profiles fetched; committed / inserted: identities whose row
\* change / insert was committed; alerted: identities a "new asset" send
\* was attempted for; risk_unavailable: the risk call of the profile just
\* handled failed; raised: the sub-task that raised; attempted: the
\* sub-tasks _run_cycle has called; examined: the ids of the rows the
\* query of the trend detector returned.
NoCycle ==
  [listed |-> 0, committed |-> {}, inserted |-> {}, alerted |-> <<>>,
   risk_unavailable |-> FALSE, raised |-> "none", attempted |-> <<>>,
   examined |-> {}]

\* SchedulerHealth() as the dataclass builds it.
NewHealth ==
  [last_successful_run |-> None, consecutive_failures |-> 0,
   total_failures |-> 0, last_error |-> "none", is_running |-> FALSE,
   start_time |-> None]

\* TaskRunner(config) given whether its notifier could be built.
\* last_update_id is the local of _message_loop; inbox holds the inbound
\* updates Telegram keeps for the bot; fetched (history) is the highest
\* update_id a getUpdates call has returned.
NewTaskRunner(built) ==
  [notifier |-> built, should_stop |-> FALSE, message_thread |-> "none",
   delay |-> 0, last_update_id |-> 0, inbox |-> << >>, fetched |-> 0]

\* No pure-function call is under way.
NoCall ==
  [price_usd |-> 0, volume_usd |-> 0, liquidity_usd |-> 0,
   filters |-> [min_price_usd |-> None, max_price_usd |-> None,
                min_volume_usd |-> None, min_liquidity_usd |-> None],
   done |-> FALSE, result |-> FALSE]

\* No assessment has been returned; no risk level has been computed.
NoAssessment == [raised |-> FALSE, is_safe |-> FALSE, score |-> None]
NoLevels == [assessment |-> "", alert |-> "", trend |-> "", command |-> ""]

\* Entries of the trail: a notification handed to send_notification (and
\* whether the send raised), a time.sleep of sec seconds.
Notified(kind, outcome) ==
  [kind |-> kind, sec |-> 0, raised |-> (outcome = "raised")]
Slept(sec) == [kind |-> "sleep", sec |-> sec, raised |-> FALSE]

(***************************************************************************)
(* Pure helpers of the pipeline.                                           *)
(***************************************************************************)
Matching(rows, p) ==
  { r \in rows : r.token_address = p.token_address /\ r.chain_id = p.chain_id }

LookupExistingNever(rows, p) == None

\* .first() of the identity query: the id of the matching row, None if none.
LookupExisting(rows, p) ==
  IF Matching(rows, p) = {} THEN None
  ELSE CHOOSE i \in { r.id : r \in Matching(rows, p) } :
         \A r \in Matching(rows, p) : i <= r.id

\* float(liquidity.get('usd', 0) or 0)
UsdValue(pair) == IF pair.liq = None THEN 0 ELSE pair.liq

\* The conversion raises for a value that is not a number; the except
\* block of the scan then goes on to the next pair.
Parses(pair) == pair.liq # Unparseable

RECURSIVE SelectBestLast(_, _, _, _)
SelectBestLast(pairs, i, best, max_liquidity) ==
  IF i > Len(pairs) THEN best
  ELSE IF Parses(pairs[i]) /\ UsdValue(pairs[i]) >= max_liquidity
       THEN SelectBestLast(pairs, i + 1, i, UsdValue(pairs[i]))
       ELSE SelectBestLast(pairs, i + 1, best, max_liquidity)

\* The scan for the pair with the highest liquidity; 0 stands for "no pair".
RECURSIVE SelectBest(_, _, _, _)
SelectBest(pairs, i, best, max_liquidity) ==
  IF i > Len(pairs) THEN best
  ELSE IF Parses(pairs[i]) /\ UsdValue(pairs[i]) > max_liquidity
       THEN SelectBest(pairs, i + 1, i, UsdValue(pairs[i]))
       ELSE SelectBest(pairs, i + 1, best, max_liquidity)

BestPair(pairs) == SelectBest(pairs, 1, 0, 0)

\* safe_float(value, 0) and float(d.get(key, 0)) on the modelled values.
NumberOrZero(v) == IF v = None THEN 0 ELSE v

AllMetricsAnyNonZero(price_usd, volume_usd, liquidity_usd) ==
  price_usd # 0 \/ volume_usd # 0 \/ liquidity_usd # 0

\* all([price_usd, volume_usd, liquidity_usd])
AllMetrics(price_usd, volume_usd, liquidity_usd) ==
  price_usd # 0 /\ volume_usd # 0 /\ liquidity_usd # 0

\* dict.get(key, default); None marks a key the dict lacks.
Get(d, key, default) == IF d[key] = None THEN default ELSE d[key]

passes_filters_no_minimum(price_usd, volume_usd, liquidity_usd, filters) ==
  price_usd <= Get(filters, "max_price_usd", Inf)

passes_filters_strict_volume(price_usd, volume_usd, liquidity_usd, filters) ==
  /\ Get(filters, "min_price_usd", 0) <= price_usd
  /\ price_usd <= Get(filters, "max_price_usd", Inf)
  /\ volume_usd > Get(filters, "min_volume_usd", 0)
  /\ liquidity_usd >= Get(filters, "min_liquidity_usd", 0)

\* filters is config.get("filters", {}); a key it lacks takes its default.
passes_filters(price_usd, volume_usd, liquidity_usd, filters) ==
  /\ Get(filters, "min_price_usd", 0) <= price_usd
  /\ price_usd <= Get(filters, "max_price_usd", Inf)
  /\ volume_usd >= Get(filters, "min_volume_usd", 0)
  /\ liquidity_usd >= Get(filters, "min_liquidity_usd", 0)

\* The two checks between the metric extraction and the rug check, in
\* program order: the missing-metric check, then passes_filters.
FilterStage(price_usd, volume_usd, liquidity_usd, filters) ==
  IF ~AllMetrics(price_usd, volume_usd, liquidity_usd) THEN "missing_metrics"
  ELSE IF ~passes_filters(price_usd, volume_usd, liquidity_usd, filters)
  THEN "filters"
  ELSE "ok"

\* RugcheckService.__init__: max_risk_score or DEFAULT_MAX_SCORE
MaxRiskScore(m) == IF m = 0 \/ m = None THEN DEFAULT_MAX_SCORE ELSE m

assess_token_risk_default_score(outcome, max_risk_score) ==
  IF outcome.failure \notin { "", "no_score" }
  THEN [raised |-> TRUE, is_safe |-> FALSE, score |-> None]
  ELSE [raised |-> FALSE,
        is_safe |-> (NumberOrZero(outcome.score) <= max_risk_score),
        score |-> NumberOrZero(outcome.score)]

\* assess_token_risk: raises for every failure of the collaborator, else
\* returns the assessment.
assess_token_risk(outcome, max_risk_score) ==
  IF outcome.failure # ""
  THEN [raised |-> TRUE, is_safe |-> FALSE, score |-> None]
  ELSE [raised |-> FALSE, is_safe |-> (outcome.score <= max_risk_score),
        score |-> outcome.score]

\* RiskAssessment.get_risk_level
get_risk_level(score) ==
  IF score < 500 THEN "LOW"
  ELSE IF score < 750 THEN "MEDIUM"
  ELSE IF score < 1000 THEN "HIGH"
  ELSE "CRITICAL"

\* The risk level of the "New Token Alert"; risk_score is
\* risk_data.get('score'), None when there is no risk data or no score.
alert_risk_level(risk_score) ==
  IF risk_score = None THEN "Unknown"
  ELSE IF risk_score < 500 THEN "LOW"
  ELSE IF risk_score < 750 THEN "MEDIUM"
  ELSE IF risk_score < 1000 THEN "HIGH"
  ELSE "CRITICAL"

trend_risk_level_inclusive(risk_score) ==
  IF risk_score = None THEN "Unknown"
  ELSE IF risk_score <= 500 THEN "LOW"
  ELSE IF risk_score <= 750 THEN "MEDIUM"
  ELSE IF risk_score <= 1000 THEN "HIGH"
  ELSE "CRITICAL"

\* The risk level analyze_pumped_tokens gives a flagged token.
trend_risk_level(risk_score) ==
  IF risk_score = None THEN "Unknown"
  ELSE IF risk_score < 500 THEN "LOW"
  ELSE IF risk_score < 750 THEN "MEDIUM"
  ELSE IF risk_score < 1000 THEN "HIGH"
  ELSE "CRITICAL"

\* The risk level format_token_message prints.
format_risk_level(risk_score) ==
  IF risk_score = None THEN "Unknown"
  ELSE IF risk_score < 500 THEN "LOW"
  ELSE IF risk_score < 750 THEN "MEDIUM"
  ELSE IF risk_score < 1000 THEN "HIGH"
  ELSE "CRITICAL"

(***************************************************************************)
(* safe_float.  A Decimal and a float are kept as coef * 10^exp; the       *)
(* coefficients explored have no trailing zero, so a value has one         *)
(* representation.                                                         *)
(***************************************************************************)
DigitSeq == << "0", "1", "2", "3", "4", "5", "6", "7", "8", "9" >>
IsDigit(c) == \E i \in DOMAIN DigitSeq : DigitSeq[i] = c
DigitValue(c) == (CHOOSE i \in DOMAIN DigitSeq : DigitSeq[i] = c) - 1
AllDigits(s) == \A i \in DOMAIN s : IsDigit(s[i])

RECURSIVE NumberOf(_)
NumberOf(digits) ==
  IF digits = << >> THEN 0
  ELSE NumberOf(SubSeq(digits, 1, Len(digits) - 1)) * 10
         + DigitValue(digits[Len(digits)])

\* The number of digits of a coefficient.
RECURSIVE DigitCount(_)
DigitCount(n) == IF n < 10 THEN 1 ELSE 1 + DigitCount(n \div 10)

\* str.strip() and str.lower()
Strip(s) ==
  LET inked == { i \in DOMAIN s : s[i] # " " }
  IN IF inked = {} THEN << >>
     ELSE SubSeq(s, CHOOSE i \in inked : \A j \in inked : i <= j,
                    CHOOSE i \in inked : \A j \in inked : i >= j)
LowerChar(c) ==
  IF c = "K" THEN "k" ELSE IF c = "M" THEN "m" ELSE IF c = "B" THEN "b"
  ELSE IF c = "E" THEN "e" ELSE c
Lower(s) == [i \in DOMAIN s |-> LowerChar(s[i])]

\* str.endswith(c) and value[:-1]
EndsWith(s, c) == Len(s) > 0 /\ s[Len(s)] = c
ButLast(s) == SubSeq(s, 1, Len(s) - 1)

\* The index of the first c in s, or Len(s) + 1.
IndexOf(s, c) ==
  IF \E i \in DOMAIN s : s[i] = c
  THEN CHOOSE i \in DOMAIN s : s[i] = c /\ \A j \in 1 .. (i - 1) : s[j] # c
  ELSE Len(s) + 1

\* A sign, then the rest.
Unsigned(s) == IF Len(s) > 0 /\ s[1] \in { "-", "+" } THEN Tail(s) ELSE s
SignOf(s) == IF Len(s) > 0 /\ s[1] = "-" THEN 0 - 1 ELSE 1

\* Decimal(s) for a string of the characters above: surrounding whitespace
\* is dropped; a sign, digits with at most one point and at least one
\* digit, then an optional exponent.  InvalidOperation is raised for
\* anything else.
DecimalOf(s) ==
  LET body == Unsigned(Strip(s))
      e == IndexOf(Lower(body), "e")
      mantissa == SubSeq(body, 1, e - 1)
      exponent == SubSeq(body, e + 1, Len(body))
      point == IndexOf(mantissa, ".")
      int == SubSeq(mantissa, 1, point - 1)
      frac == SubSeq(mantissa, point + 1, Len(mantissa))
      wellformed ==
        /\ AllDigits(int) /\ AllDigits(frac)
        /\ Len(int) + Len(frac) >= 1
        /\ e <= Len(body) =>
             /\ Len(Unsigned(exponent)) >= 1
             /\ AllDigits(Unsigned(exponent))
  IN IF ~wellformed THEN [raised |-> "InvalidOperation", coef |-> 0, exp |-> 0]
     ELSE [raised |-> "",
           coef |-> SignOf(Strip(s)) * NumberOf(int \o frac),
           exp |-> (IF e <= Len(body)
                    THEN SignOf(exponent) * NumberOf(Unsigned(exponent))
                    ELSE 0) - Len(frac)]

\* The exponent of the leading digit.
Adjusted(d) ==
  d.exp + DigitCount(IF d.coef < 0 THEN 0 - d.coef ELSE d.coef) - 1

\* Decimal * 10^n in the default context: the signal Overflow is trapped
\* when the exponent of the result exceeds Emax.
TimesPowerOfTen(d, n) ==
  IF d.raised # "" THEN d
  ELSE IF d.coef # 0 /\ Adjusted(d) + n > DecimalEmax
  THEN [raised |-> "Overflow", coef |-> 0, exp |-> 0]
  ELSE [d EXCEPT !.exp = IF d.coef = 0 THEN @ ELSE @ + n]

\* What a call returns or raises.
Returned(v) == [raised |-> "", value |-> v]
Raised(e) == [raised |-> e, value |-> NoneValue]
InfValue(sign) == [type |-> "inf", chars |-> << >>, coef |-> sign, exp |-> 0]

Magnitude(n) == IF n < 0 THEN 0 - n ELSE n

\* coef * 10^exp rounded to a number of significant digits.
RoundTo(coef, exp, digits) ==
  LET k == DigitCount(Magnitude(coef)) - digits
  IN IF k <= 0 THEN [coef |-> coef, exp |-> exp]
     ELSE [coef |-> (IF coef < 0 THEN 0 - 1 ELSE 1)
                      * ((Magnitude(coef) + (10^k) \div 2) \div 10^k),
           exp |-> exp + k]

\* The one representation of a value: no trailing zero in the coefficient.
RECURSIVE Normal(_)
Normal(d) ==
  IF d.coef = 0 THEN [coef |-> 0, exp |-> 0]
  ELSE IF d.coef % 10 = 0
  THEN Normal([coef |-> d.coef \div 10, exp |-> d.exp + 1])
  ELSE [coef |-> d.coef, exp |-> d.exp]

\* The double nearest to coef * 10^exp, known by the digits it is sure to
\* carry.
ToDouble(coef, exp) ==
  LET d == Normal(RoundTo(coef, exp, DoubleDigits))
  IN NumberValue(d.coef, d.exp)

\* float(Decimal): the nearest double, infinite beyond the range of float.
FloatOf(d) ==
  IF d.coef # 0 /\ Adjusted(d) > FloatMaxExp
  THEN InfValue(IF d.coef < 0 THEN 0 - 1 ELSE 1)
  ELSE ToDouble(d.coef, d.exp)

\* str(value) of a number, as Decimal reads it back.
DecimalOfNumber(v) == [raised |-> "", coef |-> v.coef, exp |-> v.exp]

\* except (ValueError, InvalidOperation, TypeError): return default
CaughtBySafeFloat == { "ValueError", "InvalidOperation", "TypeError" }

\* The try block and its handler, on the Decimal the block computed.
Converted(d, default) ==
  IF d.raised = "" THEN Returned(FloatOf(d))
  ELSE IF d.raised \in CaughtBySafeFloat THEN Returned(default)
  ELSE Raised(d.raised)

safe_float(value, default) ==
  IF value.type = "none" THEN Returned(default)
  ELSE IF value.type = "str"
  THEN LET v == Lower(Strip(value.chars))
       IN IF EndsWith(v, "k")
          THEN Converted(TimesPowerOfTen(DecimalOf(ButLast(v)), 3), default)
          ELSE IF EndsWith(v, "m")
          THEN Converted(TimesPowerOfTen(DecimalOf(ButLast(v)), 6), default)
          ELSE IF EndsWith(v, "b")
          THEN Converted(TimesPowerOfTen(DecimalOf(ButLast(v)), 9), default)
          ELSE Converted(DecimalOf(v), default)
  ELSE Converted(DecimalOfNumber(value), default)

(***************************************************************************)
(* TelegramNotifier.send_message.                                          *)
(***************************************************************************)
\* The counters of a new TelegramNotifier.
NewStats ==
  [consecutive_failures |-> 0, total_requests |-> 0, failed_requests |-> 0]

\* What a call did: the value returned, whether it raised, the posts made,
\* the delays slept between them, and the counters afterwards.
SendResult(returned, attempts, stats) ==
  [returned |-> returned, raised |-> FALSE, attempts |-> attempts,
   sleeps |-> << >>, stats |-> stats]

\* for attempt in range(max_retries): the post, the return on success, the
\* except block and its return on the last attempt.
RECURSIVE SendLoop(_, _, _, _)
SendLoop(attempt, max_retries, posts, stats) ==
  IF attempt >= max_retries THEN SendResult(FALSE, attempt, stats)
  ELSE IF posts[attempt + 1] = "ok"
  THEN SendResult(TRUE, attempt + 1,
                  [stats EXCEPT !.consecutive_failures = 0,
                                !.total_requests = @ + 1])
  ELSE LET failed == [stats EXCEPT !.consecutive_failures = @ + 1,
                                   !.failed_requests = @ + 1]
       IN IF attempt = max_retries - 1
          THEN SendResult(FALSE, attempt + 1, failed)
          ELSE SendLoop(attempt + 1, max_retries, posts, failed)

send_message_single_attempt(message, max_retries, posts, stats) ==
  IF message = "" THEN SendResult(FALSE, 0, stats)
  ELSE SendLoop(0, IF max_retries > 1 THEN 1 ELSE max_retries, posts, stats)

send_message(message, max_retries, posts, stats) ==
  IF message = "" THEN SendResult(FALSE, 0, stats)
  ELSE SendLoop(0, max_retries, posts, stats)

(***************************************************************************)
(* The trend detector: analyze_pumped_tokens.                              *)
(***************************************************************************)
\* .filter(TokenSnapshot.timestamp >= cutoff_time), the cutoff being
\* now - timedelta(minutes=lookback_minutes).
InWindow(rows, now, lookback) ==
  { r \in rows : r.timestamp >= now - lookback }

\* .order_by(TokenSnapshot.timestamp.asc()).all(): the lists the query can
\* return; the order of rows with equal timestamps is not defined.
RECURSIVE QueryResults(_)
QueryResults(rows) ==
  IF rows = {} THEN { <<>> }
  ELSE UNION { { << r >> \o rest : rest \in QueryResults(rows \ {r}) } :
               r \in { m \in rows :
                         \A o \in rows : m.timestamp <= o.timestamp } }

\* The key of the dictionary token_snapshots.
GroupKey(snapshot) == snapshot.token_address

\* token_snapshots[key]: the snapshots of the key, in the order of the
\* query.
History(snapshots, key) ==
  SelectSeq(snapshots, LAMBDA snapshot : GroupKey(snapshot) = key)

\* Python truth of an Optional[float].
Truthy(v) == v # None /\ v # 0

\* A quotient kept exact: num / den with den > 0.
Ratio(num, den) ==
  IF den > 0 THEN [num |-> num, den |-> den]
  ELSE [num |-> 0 - num, den |-> 0 - den]

\* q >= n, and q1 >= q2.
AtLeast(q, n) == q.num >= n * q.den
NotBelow(q1, q2) == q1.num * q2.den >= q2.num * q1.den

\* ((last.price_usd - first.price_usd) / first.price_usd) * 100
PriceChangePercent(first, last) ==
  Ratio((last.price_usd - first.price_usd) * 100, first.price_usd)

IsPumpedByVolume(history, min_price_increase_percent, min_volume_usd) ==
  /\ Len(history) >= 1
  /\ Truthy(history[Len(history)].volume_usd)
  /\ history[Len(history)].volume_usd >= min_volume_usd

\* The tests a token's history has to pass to be appended to pumped_tokens.
IsPumped(history, min_price_increase_percent, min_volume_usd) ==
  /\ Len(history) >= 2
  /\ LET first == history[1]
         last == history[Len(history)]
     IN /\ Truthy(first.price_usd)
        /\ Truthy(last.price_usd)
        /\ Truthy(last.volume_usd)
        /\ AtLeast(PriceChangePercent(first, last),
                   min_price_increase_percent)
        /\ last.volume_usd >= min_volume_usd

\* The dictionary appended for a pumped token; first and last name the
\* rows it was computed from.
PumpedToken(history) ==
  LET first == history[1]
      last == history[Len(history)]
  IN [token_address |-> GroupKey(last),
      chain_id |-> last.chain_id,
      initial_price |-> first.price_usd,
      current_price |-> last.price_usd,
      price_change_percent |-> PriceChangePercent(first, last),
      volume_usd |-> last.volume_usd,
      liquidity_usd |-> last.liquidity_usd,
      risk_level |-> trend_risk_level(last.risk_score),
      risk_score |-> last.risk_score,
      first |-> first.id,
      last |-> last.id]

\* The loop over token_snapshots.items(): the keys come in the order of
\* their first snapshot.
RECURSIVE PumpedTokens(_, _, _, _)
PumpedTokens(snapshots, i, min_price_increase_percent, min_volume_usd) ==
  IF i > Len(snapshots) THEN << >>
  ELSE LET key == GroupKey(snapshots[i])
           history == History(snapshots, key)
           opens == \A j \in 1 .. (i - 1) : GroupKey(snapshots[j]) # key
       IN (IF opens /\ IsPumped(history, min_price_increase_percent,
                                min_volume_usd)
           THEN << PumpedToken(history) >>
           ELSE << >>)
            \o PumpedTokens(snapshots, i + 1, min_price_increase_percent,
                            min_volume_usd)

SortedByPriceChangeUnsorted(tokens) == tokens

\* sorted(pumped_tokens, key=price_change_percent, reverse=True): tokens
\* with equal keys keep their order.
RECURSIVE SortedByPriceChange(_)
SortedByPriceChange(tokens) ==
  IF tokens = << >> THEN << >>
  ELSE LET x == Head(tokens)
           rest == SortedByPriceChange(Tail(tokens))
           above == Cardinality({ i \in DOMAIN rest :
                      ~NotBelow(x.price_change_percent,
                                rest[i].price_change_percent) })
       IN SubSeq(rest, 1, above) \o << x >>
            \o SubSeq(rest, above + 1, Len(rest))

\* analyze_pumped_tokens on the snapshots its query returned.
analyze_pumped_tokens(snapshots, min_price_increase_percent, min_volume_usd) ==
  SortedByPriceChange(PumpedTokens(snapshots, 1, min_price_increase_percent,
                                   min_volume_usd))

\* profile.name (and with it the symbol, the links and the other fields of
\* the profile) as the feed lists the token at a clock reading: the listing
\* changes from one cycle to the next.
ProfileName(p, now) == << p.token_address, now >>

\* The row built by TokenSnapshot.from_token_profile and given its id and
\* timestamp by the INSERT.
NewRow(rows, p, c, now) ==
  [id |-> Cardinality(rows) + 1, chain_id |-> p.chain_id,
   token_address |-> p.token_address, price_usd |-> c.price_usd,
   volume_usd |-> c.volume_usd, liquidity_usd |-> c.liquidity_usd,
   risk_score |-> c.score, timestamp |-> now,
   token_name |-> ProfileName(p, now)]

UpdatedRowRenamed(r, c, now) ==
  [r EXCEPT !.price_usd = c.price_usd, !.volume_usd = c.volume_usd,
            !.liquidity_usd = c.liquidity_usd, !.risk_score = c.score,
            !.timestamp = now, !.token_name = ProfileName(r, now)]

UpdatedRowStaleTimestamp(r, c, now) ==
  [r EXCEPT !.price_usd = c.price_usd, !.volume_usd = c.volume_usd,
            !.liquidity_usd = c.liquidity_usd, !.risk_score = c.score]

\* The assignments to existing_token.
UpdatedRow(r, c, now) ==
  [r EXCEPT !.price_usd = c.price_usd, !.volume_usd = c.volume_usd,
            !.liquidity_usd = c.liquidity_usd, !.risk_score = c.score,
            !.timestamp = now]

ColumnFloatSingle(v) ==
  IF v.type # "number" THEN v
  ELSE LET d == Normal(RoundTo(v.coef, v.exp, 6))
       IN NumberValue(d.coef, d.exp)

\* Column(Float): the float bound to the INSERT is kept as an 8-byte REAL
\* and comes back as a float.
ColumnFloat(v) ==
  IF v.type # "number" THEN v ELSE ToDouble(v.coef, v.exp)

\* A row as the table keeps it, its amounts being Python floats.
ColumnsOf(r) ==
  [r EXCEPT !.price_usd = ColumnFloat(@), !.volume_usd = ColumnFloat(@),
            !.liquidity_usd = ColumnFloat(@)]

\* The readings of the clock the program takes: datetime.now() is local
\* time, datetime.utcnow() and the CURRENT_TIMESTAMP that SQLite puts in
\* for server_default=func.now() are UTC.
DatetimeNow == clock + utc_offset
DatetimeUtcNow == clock
ServerNow == clock

CommitSessionLost(rows, ch) == rows

\* session.commit() of the one change the session holds: the INSERT of
\* the added row, or the UPDATE of existing_token.
CommitSession(rows, ch) ==
  IF ch.existing = None
  THEN rows \cup { NewRow(rows, ch.profile, ch, ServerNow) }
  ELSE { IF r.id = ch.existing THEN UpdatedRow(r, ch, DatetimeNow) ELSE r :
         r \in rows }

\* Where the loop goes after a profile, given the profiles left.
AfterProfile(rest) == IF rest = <<>> THEN "summary" ELSE "lookup"

(***************************************************************************)
(* Initial state: the Scheduler has been constructed (signal handlers are  *)
(* installed), run() has not been called, the table is empty.              *)
(***************************************************************************)
Constructed ==
  /\ clock = 0
  /\ outcomes = << >>
  /\ pc = "init"
  /\ health = NewHealth
  /\ db = {}
  /\ notifier = FALSE
  /\ profiles = <<>>
  /\ ctx = NoCtx
  /\ counters = ZeroCounters
  /\ alerts = [a \in Identities |-> 0]
  /\ cycle = NoCycle
  /\ signalled = FALSE
  /\ trail = <<>>
  /\ critical = 0

\* The TaskRunner's notifier was built whenever the configuration holds the
\* credentials.
Init ==
  /\ config \in Configs
  /\ horizon = MaxClock
  /\ utc_offset = 0
  /\ market = PairSet
  /\ Constructed
  /\ fed = 0
  /\ task_runner = NewTaskRunner(config.telegram)
  /\ call = NoCall

\* The configuration the scheduler is explored under: every stage of the
\* pipeline can pass, and the notifiers can be built.
SchedConfigs == { c \in Configs : c.telegram /\ c.rugcheck # None }

\* As Init, with a TaskRunner whose notifier may not have been built
\* (_setup_notifier caught an exception) and a feed that has
\* SchedProfiles profiles left.
SchedInit ==
  /\ config \in SchedConfigs
  /\ horizon = SchedClock
  /\ utc_offset = 0
  /\ market = PairSet
  /\ Constructed
  /\ fed = MaxProfiles - SchedProfiles
  /\ \E built \in BOOLEAN :
       /\ built => config.telegram
       /\ task_runner = NewTaskRunner(built)
  /\ call = NoCall

\* The amounts and the filter bounds passes_filters is called with.
Amounts == 0 .. MaxAmount
FilterDicts ==
  [min_price_usd : Amounts \cup {None}, max_price_usd : Amounts \cup {None},
   min_volume_usd : Amounts \cup {None},
   min_liquidity_usd : Amounts \cup {None}]

\* As SchedInit, with a feed that has no profile left.
PollInit ==
  /\ config \in SchedConfigs
  /\ horizon = SchedClock
  /\ utc_offset = 0
  /\ market = PairSet
  /\ Constructed
  /\ fed = MaxProfiles
  /\ \E built \in BOOLEAN, inbox \in Inboxes :
       /\ built => config.telegram
       /\ task_runner = [NewTaskRunner(built) EXCEPT !.inbox = inbox]
  /\ call = NoCall

\* A call of passes_filters about to be made, at start-up.
FilterInit ==
  /\ config \in SchedConfigs
  /\ horizon = MaxClock
  /\ utc_offset = 0
  /\ market = PairSet
  /\ Constructed
  /\ fed = 0
  /\ task_runner = NewTaskRunner(config.telegram)
  /\ call \in [price_usd : Amounts, volume_usd : Amounts,
                liquidity_usd : Amounts, filters : FilterDicts,
                done : {FALSE}, result : {FALSE}]

\* The metrics of a token about to go through the missing-metric check and
\* passes_filters, and a call of passes_filters on the same arguments.
GateInit ==
  /\ config \in SchedConfigs
  /\ horizon = MaxClock
  /\ utc_offset = 0
  /\ market = PairSet
  /\ Constructed
  /\ fed = 0
  /\ task_runner = NewTaskRunner(config.telegram)
  /\ call \in [price_usd : Amounts, volume_usd : Amounts,
                liquidity_usd : Amounts, filters : FilterDicts,
                done : {FALSE}, result : {FALSE}, stage : {""}]

\* A RugcheckService about to be built with max_risk_score (None: the
\* argument is left out) and the report its collaborator will return.
RiskInit ==
  /\ config \in SchedConfigs
  /\ horizon = MaxClock
  /\ utc_offset = 0
  /\ market = PairSet
  /\ Constructed
  /\ fed = 0
  /\ task_runner = NewTaskRunner(config.telegram)
  /\ call \in [max_risk_score : ScoreSet \cup {None}, outcome : RiskReports,
                done : {FALSE}, assessment : {NoAssessment},
                levels : {NoLevels}]

\* The pairs get_token_pairs returned for a token, before the scan.
PairInit ==
  /\ config \in SchedConfigs
  /\ horizon = MaxClock
  /\ utc_offset = 0
  /\ market = PairSet
  /\ Constructed
  /\ fed = 0
  /\ task_runner = NewTaskRunner(config.telegram)
  /\ call \in [pairs : SeqsUpTo(RawPairs, MaxPairList), done : {FALSE},
                best : {0}, stage : {""}]

\* The arguments of a call of analyze_pumped_tokens.
TrendCalls(lookbacks, percents, volumes) ==
  [lookback_minutes : lookbacks, min_price_increase_percent : percents,
   min_volume_usd : volumes, done : {FALSE}, snapshots : { << >> },
   result : { << >> }]

\* A table of at most n rows of the observations obs, read at the time of
\* its last write.
TrendTable(obs, n) ==
  /\ config \in SchedConfigs
  /\ horizon = MaxClock
  /\ utc_offset = 0
  /\ market = PairSet
  /\ outcomes = << >>
  /\ health = NewHealth
  /\ pc = "init"
  /\ notifier = FALSE
  /\ profiles = <<>>
  /\ ctx = NoCtx
  /\ counters = ZeroCounters
  /\ alerts = [a \in Identities |-> 0]
  /\ cycle = NoCycle
  /\ signalled = FALSE
  /\ trail = <<>>
  /\ critical = 0
  /\ fed = 0
  /\ task_runner = NewTaskRunner(config.telegram)
  /\ clock = n
  /\ db \in { TableOf(o) : o \in SeqsUpTo(obs, n) }

\* The table holds rows of the identities that share an address.
TrendInit ==
  /\ TrendTable(Observations, MaxRows)
  /\ call \in TrendCalls({ 1, MaxRows }, { 60, 61 }, { 0, 1000 })

\* The table holds rows of two addresses.
RankInit ==
  /\ TrendTable(RankedObservations, MaxRanked)
  /\ call \in TrendCalls({ 2, MaxRanked }, { 0, 60 }, { 1000 })

\* As Init, on a host whose local time may differ from UTC.
ClockInit ==
  /\ config \in SchedConfigs
  /\ horizon = ClockHorizon
  /\ utc_offset \in UtcOffsets
  /\ market = PairSet
  /\ Constructed
  /\ fed = 0
  /\ task_runner = NewTaskRunner(config.telegram)
  /\ call = NoCall

\* As Init, with a feed that can report negative amounts, under filters
\* with the default minimums and with negative minimums.
MarketInit ==
  /\ config \in { [filters |-> f, rugcheck |-> DEFAULT_MAX_SCORE,
                   telegram |-> TRUE] : f \in { DefaultFilters, OpenFilters } }
  /\ horizon = ClockHorizon
  /\ utc_offset = 0
  /\ market = SignedPairSet
  /\ Constructed
  /\ fed = 0
  /\ task_runner = NewTaskRunner(config.telegram)
  /\ call = NoCall

\* No snapshot has been built or read.
NoSnapshot ==
  [id |-> 0, chain_id |-> "", token_address |-> "",
   price_usd |-> NoneValue, volume_usd |-> NoneValue,
   liquidity_usd |-> NoneValue, risk_score |-> None, timestamp |-> None,
   token_name |-> << >>]

\* An asset of the feed with the metrics of its best pair, about to be
\* stored in an empty table; it passes the filters and the risk check.
RoundTripInit ==
  /\ config \in SchedConfigs
  /\ horizon = MaxClock
  /\ utc_offset = 0
  /\ market = PairSet
  /\ Constructed
  /\ fed = 0
  /\ task_runner = NewTaskRunner(config.telegram)
  /\ call \in [profile : Identities,
                price : { StrValue(s) : s \in PriceStrings },
                volume : JsonNumbers, liquidity : JsonNumbers,
                done : {FALSE}, stage : {""}, snapshot : {NoSnapshot},
                read : {FALSE}, row : {NoSnapshot}]

\* As Init, with a feed whose pairs reach the volume run_analysis asks for.
PumpInit ==
  /\ config = [filters |-> DefaultFilters, rugcheck |-> DEFAULT_MAX_SCORE,
               telegram |-> TRUE]
  /\ horizon = ClockHorizon
  /\ utc_offset = 0
  /\ market = PumpPairSet
  /\ Constructed
  /\ fed = 0
  /\ task_runner = NewTaskRunner(config.telegram)
  /\ call = NoCall

\* A call of send_message about to be made on a new TelegramNotifier.
SendInit ==
  /\ config \in SchedConfigs
  /\ horizon = MaxClock
  /\ utc_offset = 0
  /\ market = PairSet
  /\ Constructed
  /\ fed = 0
  /\ task_runner = NewTaskRunner(config.telegram)
  /\ call \in [message : Messages, max_retries : 0 .. MaxRetries,
                posts : PostScripts, done : {FALSE},
                result : { SendResult(FALSE, 0, NewStats) }]

\* A call of safe_float about to be made, at start-up.
FloatInit ==
  /\ config \in SchedConfigs
  /\ horizon = MaxClock
  /\ utc_offset = 0
  /\ market = PairSet
  /\ Constructed
  /\ fed = 0
  /\ task_runner = NewTaskRunner(config.telegram)
  /\ call \in [value : RawValues, default : Defaults, done : {FALSE},
                result : { Returned(NoneValue) }]

pipeVars == << notifier, profiles, ctx, counters >>

\* What the pipeline and the recording of a cycle's outcome leave alone.
auxVars == << task_runner, signalled, trail, critical, call >>

(***************************************************************************)
(* Scheduler.                                                              *)
(***************************************************************************)
record_success_forgets_failures(h, now) ==
  [h EXCEPT !.last_successful_run = now, !.consecutive_failures = 0,
            !.total_failures = 0]

record_success_keeps_count(h, now) ==
  [h EXCEPT !.last_successful_run = now]

record_success(h, now) ==
  [h EXCEPT !.last_successful_run = now, !.consecutive_failures = 0]

record_failure_consecutive_only(h, error) ==
  [h EXCEPT !.consecutive_failures = @ + 1, !.last_error = error]

record_failure(h, error) ==
  [h EXCEPT !.consecutive_failures = @ + 1, !.total_failures = @ + 1,
            !.last_error = error]

\* What send_message can do when a notification is handed to it; a send
\* that returns False is not told apart from one that returns True, since
\* no caller reads the result.
SendOutcomes == { "sent", "raised" }

\* The outcomes of one send through the TaskRunner: without a notifier the
\* message is logged and nothing is sent.
Sends(tr) == IF tr.notifier THEN SendOutcomes ELSE { "skipped" }

send_notification_unguarded(has_notifier, outcome) ==
  IF has_notifier /\ outcome = "raised" THEN "raised" ELSE "returned"

\* TaskRunner.send_notification: the send sits in try / except Exception,
\* so the call returns whatever the send does.
send_notification(has_notifier, outcome) == "returned"

\* Where the caller of send_notification is afterwards: at `next`, or out of
\* run() with the exception if the call raised.
AfterSend(next, tr, outcome) ==
  IF send_notification(tr.notifier, outcome) = "raised" THEN "crashed"
  ELSE next

start_message_handler(tr) ==
  IF tr.notifier THEN [tr EXCEPT !.message_thread = "check"] ELSE tr

stop_message_handler_forgotten(tr) == tr

\* Sets the stop flag; the join waits at most 5 seconds and returns.
stop_message_handler(tr) == [tr EXCEPT !.should_stop = TRUE]

CooldownLinear(k) == error_cooldown_sec * k

\* cooldown = error_cooldown_sec * (2 ** (consecutive_failures - 1))
Cooldown(k) == error_cooldown_sec * 2^(k - 1)

ReachedThresholdLate(h) == h.consecutive_failures > max_consecutive_failures

\* if self.health.consecutive_failures >= self.max_consecutive_failures
ReachedThreshold(h) == h.consecutive_failures >= max_consecutive_failures

AfterBackoffNoSleep == "loop"

\* After the except blocks the loop body goes on to the interval sleep.
AfterBackoff == "sleep"

on_poll_error_recorded(h, error) ==
  [h EXCEPT !.consecutive_failures = @ + 1, !.total_failures = @ + 1,
            !.last_error = error]

\* except Exception in _message_loop: the error is logged.
on_poll_error(h, error) == h

\* Scheduler.run up to the loop: the flags, the start notification and
\* start_message_handler.
Run ==
  /\ pc = "init"
  /\ health' = [health EXCEPT !.is_running = TRUE, !.start_time = DatetimeNow]
  /\ \E outcome \in Sends(task_runner) :
       pc' = AfterSend("loop", task_runner, outcome)
  /\ task_runner' = start_message_handler(task_runner)
  /\ UNCHANGED << config, horizon, utc_offset, market, outcomes, clock, db, pipeVars, alerts, fed, cycle, signalled,
                  trail, critical, call >>

\* while self.health.is_running; on exit the finally block
\* (stop_message_handler) and the return.
LoopCheck ==
  /\ pc = "loop"
  /\ IF health.is_running
     THEN pc' = "fetch_and_store" /\ task_runner' = task_runner
     ELSE pc' = "stopped" /\ task_runner' = stop_message_handler(task_runner)
  /\ UNCHANGED << config, horizon, utc_offset, market, outcomes, clock, health, db, pipeVars, alerts, fed, cycle,
                  signalled, trail, critical, call >>

\* _handle_shutdown, run by the interpreter in the main thread between two
\* of its steps.
handle_shutdown ==
  /\ health' = [health EXCEPT !.is_running = FALSE]
  /\ signalled' = TRUE
  /\ \E outcome \in Sends(task_runner) :
       pc' = AfterSend(pc, task_runner, outcome)
  /\ UNCHANGED << config, horizon, utc_offset, market, outcomes, clock, db, pipeVars, alerts, fed, cycle,
                  task_runner, trail, critical, call >>

\* A signal while run() is active.
Shutdown ==
  /\ pc \notin { "init", "stopped", "crashed" }
  /\ health.is_running
  /\ handle_shutdown

\* A signal after the handlers were installed and before run() was called.
ShutdownBeforeRun ==
  /\ pc = "init"
  /\ ~signalled
  /\ handle_shutdown

\* TaskRunner.run_analysis: the trend detector over the last six hours and
\* one "Token Alert" per flagged token; it returns, or notifies the error
\* and raises SchedulerError.
RunAnalysis ==
  /\ pc = "analysis"
  /\ \/ \E snapshots \in QueryResults(InWindow(db, DatetimeUtcNow,
                                                 LookbackReadings)),
            outcome \in Sends(task_runner) :
          LET flagged_tokens ==
                analyze_pumped_tokens(snapshots,
                                      analysis_min_price_increase_percent,
                                      analysis_min_volume_usd)
          IN /\ pc' = "success"
             /\ cycle' = [cycle EXCEPT
                            !.attempted = Append(@, "analysis"),
                            !.examined = { snapshots[i].id :
                                             i \in DOMAIN snapshots }]
             /\ trail' = trail \o [i \in DOMAIN flagged_tokens |->
                                     Notified("pump", outcome)]
     \/ \E outcome \in Sends(task_runner) :
          /\ pc' = AfterSend("failure", task_runner, outcome)
          /\ cycle' = [cycle EXCEPT !.raised = "analysis",
                                    !.attempted = Append(@, "analysis")]
          /\ trail' = Append(trail, Notified("error", outcome))
  /\ UNCHANGED << config, horizon, utc_offset, market, outcomes, clock, health, db, pipeVars, alerts, fed,
                  task_runner, signalled, critical, call >>

\* self.health.record_success()
RecordSuccess ==
  /\ pc = "success"
  /\ health' = record_success(health, DatetimeNow)
  /\ pc' = "sleep"
  /\ cycle' = NoCycle
  /\ outcomes' = Append(outcomes, "returned")
  /\ UNCHANGED << config, horizon, utc_offset, market, clock, db, pipeVars, alerts, fed, auxVars >>

\* except SchedulerError: record_failure and the threshold test.
RecordFailure ==
  /\ pc = "failure"
  /\ health' = record_failure(health, cycle.raised)
  /\ pc' = IF ReachedThreshold(health') THEN "backoff" ELSE "sleep"
  /\ cycle' = NoCycle
  /\ outcomes' = Append(outcomes, "raised")
  /\ UNCHANGED << config, horizon, utc_offset, market, clock, db, pipeVars, alerts, fed, auxVars >>

\* The critical notification and time.sleep(cooldown).
Backoff ==
  /\ pc = "backoff"
  /\ \E outcome \in Sends(task_runner) :
       /\ trail' = trail \o << Notified("critical", outcome),
                               Slept(Cooldown(health.consecutive_failures)) >>
       /\ pc' = AfterSend(AfterBackoff, task_runner, outcome)
  /\ critical' = critical + 1
  /\ UNCHANGED << config, horizon, utc_offset, market, outcomes, clock, health, db, pipeVars, alerts, fed, cycle,
                  task_runner, signalled, call >>

\* time.sleep(self.interval_sec).  The horizon stops the runs that would
\* begin a cycle after it; the sleep before the loop's exit is kept.
Sleep ==
  /\ pc = "sleep"
  /\ clock < horizon \/ ~health.is_running
  /\ clock' = clock + 1
  /\ trail' = Append(trail, Slept(interval_sec))
  /\ pc' = "loop"
  /\ UNCHANGED << config, horizon, utc_offset, market, outcomes, health, db, pipeVars, alerts, fed, cycle,
                  task_runner, signalled, critical, call >>

(***************************************************************************)
(* The background poll task: TaskRunner._message_loop.                     *)
(***************************************************************************)
\* What a step of the poll task leaves alone.
mainVars == << config, horizon, utc_offset, market, outcomes, clock, pc, db, pipeVars, alerts, fed, cycle,
               signalled, trail, critical, call >>

\* while not self._should_stop
PollCheck ==
  /\ task_runner.message_thread = "check"
  /\ task_runner' = [task_runner EXCEPT
                       !.message_thread = IF task_runner.should_stop
                                          THEN "exited" ELSE "get"]
  /\ UNCHANGED << mainVars, health >>

\* The methods and properties class TelegramNotifier defines.
NotifierAttributes ==
  { "__init__", "_validate_credentials", "send_message", "is_healthy",
    "get_stats" }

\* The "result" of getUpdates for an offset: the updates whose update_id is
\* at least the offset, in order.
getUpdates(inbox, offset) ==
  [i \in 1..(IF offset > Len(inbox) THEN 0 ELSE Len(inbox) - offset + 1) |->
     [update_id |-> offset + i - 1, kind |-> inbox[offset + i - 1]]]

\* self.notifier.handle_message(update["message"]) raises AttributeError
\* unless the notifier has the attribute.
HandleMessageRaises == "handle_message" \notin NotifierAttributes

\* for update in updates["result"]: the message is handled, then
\* last_update_id is set; an exception leaves the loop and the try block.
RECURSIVE HandleUpdates(_, _)
HandleUpdates(result, last_update_id) ==
  IF result = << >>
  THEN [raised |-> FALSE, last_update_id |-> last_update_id]
  ELSE IF Head(result).kind = "message" /\ HandleMessageRaises
  THEN [raised |-> TRUE, last_update_id |-> last_update_id]
  ELSE HandleUpdates(Tail(result), Head(result).update_id)

\* The try block: getUpdates with offset last_update_id + 1 and the
\* handling of the updates, then the short delay; or an exception, the
\* error log and the longer delay.
PollGet ==
  /\ task_runner.message_thread = "get"
  /\ \/ \E ok \in BOOLEAN :       \* response.ok and updates.get("ok")
          LET result == IF ok
                        THEN getUpdates(task_runner.inbox,
                                        task_runner.last_update_id + 1)
                        ELSE << >>
              handled == HandleUpdates(result, task_runner.last_update_id)
              fetched == IF result = << >> THEN task_runner.fetched
                         ELSE result[Len(result)].update_id
          IN /\ task_runner' =
                  [task_runner EXCEPT
                     !.message_thread = "sleep",
                     !.last_update_id = handled.last_update_id,
                     !.fetched = IF fetched > @ THEN fetched ELSE @,
                     !.delay = IF handled.raised THEN poll_error_delay_sec
                               ELSE poll_delay_sec]
             /\ health' = IF handled.raised
                          THEN on_poll_error(health, "poll") ELSE health
     \/ /\ task_runner' = [task_runner EXCEPT !.message_thread = "sleep",
                                              !.delay = poll_error_delay_sec]
        /\ health' = on_poll_error(health, "poll")
  /\ UNCHANGED mainVars

\* time.sleep(1) or time.sleep(5), in the poll thread.
PollSleep ==
  /\ task_runner.message_thread = "sleep"
  /\ task_runner' = [task_runner EXCEPT !.message_thread = "check",
                                        !.delay = 0]
  /\ UNCHANGED << mainVars, health >>

(***************************************************************************)
(* Ingestion pipeline: fetch_and_store_tokens, called by                   *)
(* TaskRunner.run_fetch_and_store.                                         *)
(***************************************************************************)
\* `continue`: on to the next profile, or out of the loop.
Advance ==
  /\ pc' = AfterProfile(profiles)
  /\ ctx' = NoCtx

OnExceptionBreak(rest) == "summary"

\* The per-profile handlers (except Exception: log, continue).
OnException(rest) == AfterProfile(rest)

Caught ==
  /\ pc' = OnException(profiles)
  /\ ctx' = NoCtx

OnFetchFailureSwallowed == "summary"

\* A failed profile fetch: re-raised by fetch_and_store_tokens, turned into
\* a SchedulerError by run_fetch_and_store and caught by Scheduler.run.
OnFetchFailure == "failure"

ShouldNotifyOnUpdate(c, n) == n

ShouldNotifyNever(c, n) == FALSE

\* A "new asset" alert is sent on the insert branch when a notifier exists.
ShouldNotify(c, n) == c.existing = None /\ n

Tally(c, field) == [c EXCEPT ![field] = @ + 1]

\* The checks between the pair fetch and the risk check, in program order:
\* the stage that rejects (or "ok") and the metrics of the selected pair.
EvaluatePairs(pairs, filters) ==
  IF Len(pairs) = 0
  THEN [stage |-> "no_pairs", price_usd |-> 0, volume_usd |-> 0,
        liquidity_usd |-> 0]
  ELSE IF BestPair(pairs) = 0
  THEN [stage |-> "no_liquidity", price_usd |-> 0, volume_usd |-> 0,
        liquidity_usd |-> 0]
  ELSE LET best == pairs[BestPair(pairs)]
           m == [price_usd |-> NumberOrZero(best.price),
                 volume_usd |-> NumberOrZero(best.vol),
                 liquidity_usd |-> NumberOrZero(best.liq)]
       IN [stage |-> FilterStage(m.price_usd, m.volume_usd,
                                 m.liquidity_usd, filters)] @@ m

\* _run_cycle calls run_fetch_and_store: notifier set-up and
\* get_latest_token_profiles.  A failure of the fetch is re-raised,
\* run_fetch_and_store notifies the error and raises SchedulerError, and
\* _run_cycle ends there.
BeginPipeline ==
  /\ pc = "fetch_and_store"
  /\ \/ \E outcome \in Sends(task_runner) :
          /\ pc' = AfterSend(OnFetchFailure, task_runner, outcome)
          /\ cycle' = [cycle EXCEPT !.raised = "fetch_and_store",
                                    !.attempted = << "fetch_and_store" >>]
          /\ trail' = << Notified("error", outcome) >>
          /\ UNCHANGED << notifier, profiles, counters, fed >>
     \/ \E feed \in Feeds(MaxProfiles - fed), built \in BOOLEAN :
          /\ built => config.telegram
          /\ notifier' = built
          /\ fed' = fed + Len(feed)
          /\ profiles' = feed
          /\ counters' = ZeroCounters
          /\ pc' = AfterProfile(feed)
          /\ cycle' = [cycle EXCEPT !.listed = Len(feed),
                                    !.attempted = << "fetch_and_store" >>]
          /\ trail' = <<>>
  /\ UNCHANGED << config, horizon, utc_offset, market, outcomes, clock, health, db, ctx, alerts, task_runner,
                  signalled, critical, call >>

\* Start of the loop body: the next profile is taken, tokens_processed += 1
\* and the identity query runs.
Lookup ==
  /\ pc = "lookup"
  /\ profiles' = Tail(profiles)
  /\ counters' = Tally(counters, "tokens_processed")
  /\ \/ /\ ctx' = [NoCtx EXCEPT !.profile = Head(profiles),
                                !.existing = LookupExisting(db, Head(profiles))]
        /\ pc' = "pairs"
     \/ /\ pc' = OnException(Tail(profiles))   \* the query raises: caught
        /\ ctx' = NoCtx
  /\ cycle' = [cycle EXCEPT !.risk_unavailable = FALSE]
  /\ UNCHANGED << config, horizon, utc_offset, market, outcomes, clock, health, db, notifier, alerts, fed, auxVars >>

\* get_token_pairs, best-pair selection, metric extraction, the
\* missing-metric check and passes_filters.
PairsStage ==
  /\ pc = "pairs"
  /\ \/ \E pairs \in PairLists(market) :
          LET e == EvaluatePairs(pairs, config.filters) IN
            IF e.stage = "ok"
            THEN /\ ctx' = [ctx EXCEPT !.price_usd = e.price_usd,
                                       !.volume_usd = e.volume_usd,
                                       !.liquidity_usd = e.liquidity_usd]
                 /\ pc' = "risk"
                 /\ counters' = counters
            ELSE /\ counters' = Tally(counters, "tokens_filtered")
                 /\ Advance
     \/ /\ Caught    \* unexpected exception: caught, not tallied
        /\ counters' = counters
  /\ UNCHANGED << config, horizon, utc_offset, market, outcomes, clock, health, db, notifier, profiles, alerts, fed,
                  cycle, auxVars >>

setup_rugcheck_service_always(rugcheck_cfg) == MaxRiskScore(rugcheck_cfg)

\* setup_rugcheck_service: the max_risk_score of the service built from
\* the section, None when the section is empty.
setup_rugcheck_service(rugcheck_cfg) ==
  IF rugcheck_cfg = None THEN None ELSE MaxRiskScore(rugcheck_cfg)

\* The rug check.
RiskStage ==
  /\ pc = "risk"
  /\ IF setup_rugcheck_service(config.rugcheck) = None
     THEN /\ counters' = Tally(counters, "tokens_filtered")
          /\ Advance
          /\ cycle' = cycle
     ELSE \E outcome \in RiskOutcomes :
            LET a == assess_token_risk(outcome,
                                       setup_rugcheck_service(config.rugcheck))
            IN /\ cycle' = [cycle EXCEPT
                               !.risk_unavailable = (outcome.failure # "")]
               /\ IF a.raised \/ ~a.is_safe
                  THEN /\ counters' = Tally(counters, "tokens_filtered")
                       /\ Advance
                  ELSE /\ ctx' = [ctx EXCEPT !.is_safe = TRUE,
                                             !.score = a.score]
                       /\ pc' = "store"
                       /\ counters' = counters
  /\ UNCHANGED << config, horizon, utc_offset, market, outcomes, clock, health, db, notifier, profiles, alerts, fed,
                  auxVars >>

\* The row as the commit leaves it, for the cycle's history.
WrittenRow(rows, c) ==
  IF c.existing = None THEN NewRow(rows, c.profile, c, ServerNow)
  ELSE UpdatedRow(CHOOSE r \in rows : r.id = c.existing, c, DatetimeNow)

\* Update of existing_token or insert of a new snapshot, and the commit.
StoreToken ==
  /\ pc = "store"
  /\ \/ /\ db' = CommitSession(db, ctx)
        /\ counters' = Tally(counters, IF ctx.existing = None
                                       THEN "tokens_stored"
                                       ELSE "tokens_updated")
        /\ cycle' = [cycle EXCEPT
                       !.committed =
                          { r \in @ : r.id # WrittenRow(db, ctx).id }
                            \cup { WrittenRow(db, ctx) },
                       !.inserted = IF ctx.existing = None
                                    THEN @ \cup {ctx.profile} ELSE @]
        /\ IF ShouldNotify(ctx, notifier)
           THEN pc' = "notify" /\ ctx' = ctx
           ELSE Advance
     \/ /\ Caught       \* from_token_profile or the commit raises: caught
        /\ UNCHANGED << db, counters, cycle >>
  /\ UNCHANGED << config, horizon, utc_offset, market, outcomes, clock, health, notifier, profiles, alerts, fed,
                  auxVars >>

\* notifier.send_message for a new token (its result is not used).
NotifyStage ==
  /\ pc = "notify"
  /\ alerts' = [alerts EXCEPT ![ctx.profile] = @ + 1]
  /\ cycle' = [cycle EXCEPT !.alerted = Append(@, ctx.profile)]
  /\ Advance
  /\ UNCHANGED << config, horizon, utc_offset, market, outcomes, clock, health, db, notifier, profiles, counters,
                  fed, auxVars >>

\* End of the loop: the session closes, the summary is logged, the
\* function returns and _run_cycle goes on to run_analysis.
Summary ==
  /\ pc = "summary"
  /\ notifier' = FALSE
  /\ counters' = ZeroCounters
  /\ cycle' = [NoCycle EXCEPT !.attempted = cycle.attempted]
  /\ pc' = "analysis"
  /\ UNCHANGED << config, horizon, utc_offset, market, outcomes, clock, health, db, profiles, ctx, alerts, fed,
                  auxVars >>

\* passes_filters(price_usd, volume_usd, liquidity_usd, config) is called
\* and returns.
CallPassesFilters ==
  /\ ~call.done
  /\ call' = [call EXCEPT
                !.done = TRUE,
                !.result = passes_filters(call.price_usd, call.volume_usd,
                                          call.liquidity_usd, call.filters)]
  /\ UNCHANGED << config, horizon, utc_offset, market, outcomes, clock, pc, health, db, pipeVars, alerts, fed, cycle,
                  task_runner, signalled, trail, critical >>

\* The pipeline's two checks on the extracted metrics: "Skip if missing
\* required data", then "Apply filters".
ApplyFilters ==
  /\ call.stage = ""
  /\ call' = [call EXCEPT
                !.stage = FilterStage(call.price_usd, call.volume_usd,
                                      call.liquidity_usd, call.filters)]
  /\ UNCHANGED << config, horizon, utc_offset, market, outcomes, clock, pc, health, db, pipeVars, alerts, fed, cycle,
                  task_runner, signalled, trail, critical >>

\* What a call of a pure function leaves alone.
callerVars == << config, horizon, utc_offset, market, outcomes, clock, pc, health, db, pipeVars, alerts, fed,
                 cycle, task_runner, signalled, trail, critical >>

\* RugcheckService(max_risk_score).assess_token_risk(token_address) is
\* called and returns or raises.
CallAssess ==
  /\ ~call.done
  /\ call' = [call EXCEPT
                !.done = TRUE,
                !.assessment =
                   assess_token_risk(call.outcome,
                                     MaxRiskScore(call.max_risk_score))]
  /\ UNCHANGED callerVars

\* The risk level of the assessed score, as each of the four places
\* computes it: from the assessment, and from the risk_data
\* {'score': assessment.score, ...} the pipeline builds and stores.
CallRiskLevel ==
  /\ call.done
  /\ ~call.assessment.raised
  /\ call.levels = NoLevels
  /\ call' = [call EXCEPT
                !.levels =
                   [assessment |-> get_risk_level(call.assessment.score),
                    alert |-> alert_risk_level(call.assessment.score),
                    trend |-> trend_risk_level(call.assessment.score),
                    command |-> format_risk_level(call.assessment.score)]]
  /\ UNCHANGED callerVars

\* The pipeline from the pairs of a token to its filters: the scan for the
\* best pair and the stage that rejects the token, if any.
SelectPair ==
  /\ ~call.done
  /\ call' = [call EXCEPT
                !.done = TRUE,
                !.best = BestPair(call.pairs),
                !.stage = EvaluatePairs(call.pairs, config.filters).stage]
  /\ UNCHANGED callerVars

\* analyze_pumped_tokens(session, lookback_minutes,
\* min_price_increase_percent, min_volume_usd) is called and returns.
CallAnalyze ==
  /\ ~call.done
  /\ \E snapshots \in
          QueryResults(InWindow(db, DatetimeUtcNow,
                                call.lookback_minutes)) :
       call' = [call EXCEPT
                  !.done = TRUE,
                  !.snapshots = snapshots,
                  !.result =
                     analyze_pumped_tokens(snapshots,
                                           call.min_price_increase_percent,
                                           call.min_volume_usd)]
  /\ UNCHANGED callerVars

\* notifier.send_message(message) is called and returns.
CallSendMessage ==
  /\ ~call.done
  /\ call' = [call EXCEPT
                !.done = TRUE,
                !.result = send_message(call.message, call.max_retries,
                                        call.posts, NewStats)]
  /\ UNCHANGED callerVars

\* Python truth of a float.
NonZero(v) == ~(v.type = "number" /\ v.coef = 0)

\* The metric extraction, the missing-metric check and the insert of the
\* snapshot built by from_token_profile, with its commit.
InsertSnapshot ==
  /\ ~call.done
  /\ LET price_usd == safe_float(call.price, NumberValue(0, 0)).value
         volume_usd == FloatOf(DecimalOfNumber(call.volume))
         liquidity_usd == FloatOf(DecimalOfNumber(call.liquidity))
         snapshot ==
           NewRow(db, call.profile,
                  [price_usd |-> price_usd, volume_usd |-> volume_usd,
                   liquidity_usd |-> liquidity_usd, score |-> 500],
                  ServerNow)
     IN IF NonZero(price_usd) /\ NonZero(volume_usd) /\ NonZero(liquidity_usd)
        THEN /\ db' = db \cup { ColumnsOf(snapshot) }
             /\ call' = [call EXCEPT !.done = TRUE, !.stage = "ok",
                                     !.snapshot = snapshot]
        ELSE /\ db' = db
             /\ call' = [call EXCEPT !.done = TRUE,
                                     !.stage = "missing_metrics"]
  /\ UNCHANGED << config, horizon, utc_offset, market, outcomes, clock, pc, health, pipeVars, alerts, fed,
                  cycle, task_runner, signalled, trail, critical >>

\* The identity query of a later cycle: .filter(token_address, chain_id)
\* .first().
ReadSnapshot ==
  /\ call.done
  /\ ~call.read
  /\ LookupExisting(db, call.profile) # None
  /\ call' = [call EXCEPT
                !.read = TRUE,
                !.row = CHOOSE r \in db :
                          r.id = LookupExisting(db, call.profile)]
  /\ UNCHANGED callerVars

\* safe_float(value, default) is called and returns or raises.
CallSafeFloat ==
  /\ ~call.done
  /\ call' = [call EXCEPT !.done = TRUE,
                          !.result = safe_float(call.value, call.default)]
  /\ UNCHANGED callerVars

Next ==
  \/ Run
  \/ LoopCheck
  \/ Shutdown
  \/ BeginPipeline
  \/ Lookup
  \/ PairsStage
  \/ RiskStage
  \/ StoreToken
  \/ NotifyStage
  \/ Summary
  \/ RunAnalysis
  \/ RecordSuccess
  \/ RecordFailure
  \/ Backoff
  \/ Sleep

Spec == Init /\ [][Next]_vars

SchedNext == Next \/ ShutdownBeforeRun

SchedSpec == SchedInit /\ [][SchedNext]_vars

\* The steps of the main thread when the feed lists no profile.
MainNext ==
  \/ Run
  \/ LoopCheck
  \/ BeginPipeline
  \/ Summary
  \/ RunAnalysis
  \/ RecordSuccess
  \/ RecordFailure
  \/ Backoff
  \/ Sleep

\* The steps of the poll thread.
PollNext == PollCheck \/ PollGet \/ PollSleep

PollSpecNext ==
  \/ MainNext
  \/ Shutdown
  \/ ShutdownBeforeRun
  \/ PollNext

PollSpec == PollInit /\ [][PollSpecNext]_vars

\* Every cycle, every sleep and every call of the poll task returns, and
\* each of the two threads keeps being scheduled.
PollFairSpec == PollSpec /\ WF_vars(MainNext) /\ WF_vars(PollNext)

FilterNext == CallPassesFilters

FilterSpec == FilterInit /\ [][FilterNext]_vars

GateNext == CallPassesFilters \/ ApplyFilters

GateSpec == GateInit /\ [][GateNext]_vars

PairNext == SelectPair

PairSpec == PairInit /\ [][PairNext]_vars

ClockSpec == ClockInit /\ [][Next]_vars

TrendNext == CallAnalyze

TrendSpec == TrendInit /\ [][TrendNext]_vars

RankSpec == RankInit /\ [][TrendNext]_vars

RiskNext == CallAssess \/ CallRiskLevel

RiskSpec == RiskInit /\ [][RiskNext]_vars

MarketSpec == MarketInit /\ [][Next]_vars

RoundTripNext == InsertSnapshot \/ ReadSnapshot

RoundTripSpec == RoundTripInit /\ [][RoundTripNext]_vars

PumpSpec == PumpInit /\ [][Next]_vars

SendNext == CallSendMessage

SendSpec == SendInit /\ [][SendNext]_vars

FloatNext == CallSafeFloat

FloatSpec == FloatInit /\ [][FloatNext]_vars

(***************************************************************************)
(* Properties.                                                             *)
(***************************************************************************)
RowsOf(a) == { r \in db : IdentityOf(r) = a }

Count(a, seq) == Cardinality({ i \in DOMAIN seq : seq[i] = a })

InPipeline == pc \in { "lookup", "pairs", "risk", "store", "notify", "summary" }

\* The bounds of config["filters"], read off the configuration.
WithinBounds(c) ==
  /\ config.filters.min_price_usd <= c.price_usd
  /\ c.price_usd <= config.filters.max_price_usd
  /\ c.volume_usd >= config.filters.min_volume_usd
  /\ c.liquidity_usd >= config.filters.min_liquidity_usd

\* The stages before the risk check: a selected pair with positive
\* liquidity, three non-zero metrics, the filter bounds.
PassedFeedStages(c) ==
  /\ c.liquidity_usd > 0
  /\ c.price_usd # 0
  /\ c.volume_usd # 0
  /\ WithinBounds(c)

PassedRiskStage(c) ==
  /\ config.rugcheck # None
  /\ c.is_safe
  /\ c.score # None
  /\ c.score <= (IF config.rugcheck = 0 THEN DEFAULT_MAX_SCORE
                 ELSE config.rugcheck)

\* C1: after any sequence of cycles over any feed contents, also a feed
\* that lists one asset twice in a cycle, storage holds at most one row per
\* identity (chain_id, token_address).
C1_OneRowPerIdentity ==
  \A r1, r2 \in db : IdentityOf(r1) = IdentityOf(r2) => r1 = r2

\* An asset listed twice in the first cycle: inserted, then updated.
C1_Witness ==
  /\ pc = "summary"
  /\ clock = 0
  /\ cycle.listed = 2
  /\ counters.tokens_stored = 1
  /\ counters.tokens_updated = 1
  /\ Cardinality(db) = 1

\* C2: a run that accepts an asset whose row an earlier run stored leaves
\* exactly one row for it, rewrites that row's timestamp with the time of
\* this run and sends no further "new asset" notification.
C2_SecondRunUpdatesInPlace ==
  [][ (pc = "store" /\ ctx.existing # None /\ pc' # "store")
        => \/ /\ db' = db
              /\ counters'.tokens_updated = counters.tokens_updated
           \/ /\ counters'.tokens_updated = counters.tokens_updated + 1
              /\ Cardinality(db') = Cardinality(db)
              /\ \E r \in db' :
                   /\ r.id = ctx.existing
                   /\ IdentityOf(r) = ctx.profile
                   /\ r.timestamp = clock
                   /\ { q \in db' : IdentityOf(q) = ctx.profile } = {r}
              /\ alerts' = alerts
              /\ pc' # "notify" ]_vars

\* A row stored and notified in the first cycle was rewritten in the second.
C2_Witness ==
  /\ pc = "summary"
  /\ clock = 1
  /\ counters.tokens_updated = 1
  /\ counters.tokens_stored = 0
  /\ \E r \in db : r.timestamp = 1 /\ alerts[IdentityOf(r)] = 1
  /\ Cardinality(db) = 1

\* C3: a "new asset" notification is dispatched at most once per identity,
\* only for an asset inserted in the same cycle; a cycle that finds the row
\* present sends none for it.
C3_NotifyOnInsertOnly ==
  /\ \A a \in Identities : alerts[a] <= 1
  /\ \A a \in Identities : alerts[a] = 1 => RowsOf(a) # {}
  /\ \A i \in DOMAIN cycle.alerted : cycle.alerted[i] \in cycle.inserted
  /\ pc = "notify" => ctx.existing = None /\ ctx.profile \in cycle.inserted

\* With a notifier at hand, an asset alerted earlier has just been updated.
C3_Witness ==
  /\ pc = "summary"
  /\ notifier
  /\ counters.tokens_updated = 1
  /\ cycle.alerted = <<>>
  /\ \E r \in cycle.committed : alerts[IdentityOf(r)] = 1 /\ clock = 1

\* C4 as claimed: every committed insert is followed, before the pipeline
\* goes on to the next asset, by one "new asset" send for that asset.
C4_EveryInsertNotified ==
  \A a \in cycle.inserted :
    \/ pc = "notify" /\ ctx.profile = a
    \/ Count(a, cycle.alerted) = 1

\* C4 as amended: when the pipeline built its notifier for the cycle, every
\* committed insert is followed, before the next asset, by exactly one send
\* for that asset; in a cycle without a notifier no send is attempted.
C4_InsertNotifiedWhenNotifier ==
  \A a \in cycle.inserted :
    \/ pc = "notify" /\ ctx.profile = a /\ notifier
         /\ Count(a, cycle.alerted) = 0
    \/ Count(a, cycle.alerted) = (IF notifier THEN 1 ELSE 0)

\* An insert was notified and the loop is at the next profile.
C4_Witness ==
  /\ pc = "lookup"
  /\ notifier
  /\ \E a \in cycle.inserted : cycle.alerted = << a >>

\* C5: a row is written only for an asset that, in this cycle, had a
\* selected pair with positive liquidity, non-zero price, volume and
\* liquidity, passed the filter bounds and was assessed safe; the risk call
\* is reached only after the feed stages passed, the write only after the
\* risk stage passed.
C5_WriteOnlyAfterAllStages ==
  [][ /\ pc' \in { "risk", "store" } => PassedFeedStages(ctx')
      /\ pc' = "store" => PassedRiskStage(ctx')
      /\ pc' = "risk" /\ pc # "risk" => pc = "pairs"
      /\ pc' = "store" /\ pc # "store" => pc = "risk"
      /\ db' # db => /\ pc = "store"
                     /\ PassedFeedStages(ctx)
                     /\ PassedRiskStage(ctx) ]_vars

\* Under the tight filters one asset was rejected and one stored.
C5_Witness ==
  /\ pc = "summary"
  /\ config.filters = TightFilters
  /\ counters.tokens_filtered = 1
  /\ counters.tokens_stored = 1
  /\ Cardinality(db) = 1

\* C6: when the risk assessment of an asset is unavailable, the asset is
\* dropped for this pass: no row is inserted or updated, no notification is
\* sent, it is tallied as filtered and never treated as safe.
C6_RiskUnavailableExcludes ==
  [][ (pc = "risk" /\ pc' # "risk" /\ cycle'.risk_unavailable)
        => /\ db' = db
           /\ alerts' = alerts
           /\ pc' \in { "lookup", "summary" }
           /\ ~ctx'.is_safe
           /\ counters' = [counters EXCEPT
                             !.tokens_filtered = @ + 1] ]_vars

\* The risk call of the last profile failed and the profile was filtered.
C6_Witness ==
  /\ pc = "summary"
  /\ cycle.risk_unavailable
  /\ counters.tokens_filtered = 1
  /\ counters.tokens_processed = 1
  /\ db = {}

\* C7: a rejection or an unexpected exception on one asset neither reaches
\* the caller nor stops the cycle: every listed profile is processed.
C7_EveryProfileProcessed ==
  /\ InPipeline => counters.tokens_processed + Len(profiles) = cycle.listed
  /\ pc = "summary" => profiles = <<>>
  /\ InPipeline => cycle.raised = "none"

\* Two profiles processed: one rejected, the other hit an exception.
C7_Witness ==
  /\ pc = "summary"
  /\ cycle.listed = 2
  /\ counters = [tokens_processed |-> 2, tokens_filtered |-> 1,
                 tokens_stored |-> 0, tokens_updated |-> 0]

\* C8: when the profile fetch fails, no asset is processed and nothing is
\* written in that cycle, and the Scheduler records exactly one failure.
C8_FetchFailureFailsCycle ==
  [][ /\ cycle'.raised = "fetch_and_store"
        => /\ pc' = "failure"
           /\ db' = db
           /\ cycle'.listed = 0
           /\ cycle'.committed = {}
           /\ counters'.tokens_processed = 0
           /\ profiles' = <<>>
      /\ (cycle.raised = "fetch_and_store" /\ pc' # pc)
        => /\ pc' \in { "sleep", "backoff" }
           /\ cycle'.raised = "none"
           /\ health'.total_failures = health.total_failures + 1
           /\ health'.consecutive_failures = health.consecutive_failures + 1
           /\ health'.last_error = "fetch_and_store" ]_vars

\* A row stored in the first cycle is still there after the second cycle's
\* fetch failed and was recorded.
C8_Witness ==
  /\ pc = "sleep"
  /\ clock = 1
  /\ health.last_error = "fetch_and_store"
  /\ health.total_failures = 1
  /\ \E r \in db : r.timestamp = 0

\* C9: each row change is committed before the next asset is processed:
\* whatever happens later in the cycle (a rejection, an exception, a
\* shutdown signal), the rows written earlier in the cycle are in storage
\* as written.
C9_CommittedRowsStay ==
  cycle.committed \subseteq db

\* After a commit, a later asset's risk call failed and shutdown was
\* signalled.
C9_Witness ==
  /\ pc = "summary"
  /\ cycle.committed # {}
  /\ cycle.risk_unavailable
  /\ ~health.is_running

\* C10: when a cycle ends with a sub-task having raised, the failure is
\* recorded: consecutive_failures and total_failures each grow by one,
\* last_error is that failure's message, last_successful_run is unchanged.
C10_FailureRecorded ==
  [][ /\ cycle'.raised # "none" => pc' = "failure"
      /\ (pc = "failure" /\ pc' # "failure")
        => /\ cycle.raised \in { "fetch_and_store", "analysis" }
           /\ health'.consecutive_failures = health.consecutive_failures + 1
           /\ health'.total_failures = health.total_failures + 1
           /\ health'.last_error = cycle.raised
           /\ health'.last_successful_run = health.last_successful_run
           /\ health'.is_running = health.is_running
           /\ health'.start_time = health.start_time ]_vars

\* Failure, success, then a failure of the analysis: the success time stays.
C10_Witness ==
  /\ pc = "sleep"
  /\ health.total_failures = 2
  /\ health.consecutive_failures = 1
  /\ health.last_successful_run = 1
  /\ health.last_error = "analysis"

(***************************************************************************)
(* Properties of the scheduler, under SchedSpec.                           *)
(***************************************************************************)
IsSleep(e) == e.kind = "sleep"

IsLoopEvent(e) == e.kind \in { "sleep", "critical" }

\* The sleeps of the trail, in order, in seconds.
Sleeps(t) ==
  [i \in 1 .. Len(SelectSeq(t, IsSleep)) |-> SelectSeq(t, IsSleep)[i].sec]

\* The critical notifications and the sleeps of the trail, in order.
LoopEvents(t) ==
  [i \in 1 .. Len(SelectSeq(t, IsLoopEvent)) |->
     [kind |-> SelectSeq(t, IsLoopEvent)[i].kind,
      sec |-> SelectSeq(t, IsLoopEvent)[i].sec]]

\* base * 2^n by repeated doubling.
RECURSIVE Doubled(_, _)
Doubled(base, n) == IF n = 0 THEN base ELSE 2 * Doubled(base, n - 1)

\* The cycle's outcome has been recorded and the loop has done everything
\* that precedes the next cycle.
BetweenCycles == pc \in { "loop", "fetch_and_store", "stopped" } /\ trail # <<>>

\* C11: when a cycle completes with neither sub-task raising,
\* consecutive_failures is reset to 0 and last_successful_run is set, while
\* total_failures and last_error keep their values; a cycle in which a
\* sub-task raised never resets consecutive_failures.
C11_SuccessRecorded ==
  [][ /\ (pc = "analysis" /\ pc' # pc /\ cycle'.raised = "none")
        => pc' = "success"
      /\ cycle'.raised # "none" => pc' # "success"
      /\ (pc = "success" /\ pc' # pc)
        => /\ cycle.raised = "none"
           /\ health'.consecutive_failures = 0
           /\ health'.last_successful_run = clock
           /\ health'.total_failures = health.total_failures
           /\ health'.last_error = health.last_error
           /\ health'.is_running = health.is_running
      /\ (health.consecutive_failures # 0 /\ health'.consecutive_failures = 0)
        => pc = "success" /\ cycle.raised = "none" ]_vars

\* A success was recorded after a failure: the failure total and the last
\* error are still there.
C11_Witness ==
  /\ pc = "sleep"
  /\ health.consecutive_failures = 0
  /\ health.total_failures = 1
  /\ health.last_error = "fetch_and_store"
  /\ health.last_successful_run = 1
  /\ clock = 1

\* C12: after a failed cycle that leaves consecutive_failures = k with
\* k >= max_consecutive_failures, the loop emits one critical notification,
\* then sleeps error_cooldown_sec * 2^(k-1), then sleeps interval_sec; after
\* a failed cycle with k below the threshold and after a successful cycle
\* it sleeps interval_sec only.
C12_BackoffAtThreshold ==
  LET k == health.consecutive_failures IN
    /\ BetweenCycles
         => LoopEvents(trail) =
              IF k >= max_consecutive_failures
              THEN << [kind |-> "critical", sec |-> 0],
                      [kind |-> "sleep",
                       sec |-> Doubled(error_cooldown_sec, k - 1)],
                      [kind |-> "sleep", sec |-> interval_sec] >>
              ELSE << [kind |-> "sleep", sec |-> interval_sec] >>
    /\ pc = "sleep"
         => LoopEvents(trail) =
              IF k >= max_consecutive_failures
              THEN << [kind |-> "critical", sec |-> 0],
                      [kind |-> "sleep",
                       sec |-> Doubled(error_cooldown_sec, k - 1)] >>
              ELSE << >>
    /\ pc = "backoff" => k >= max_consecutive_failures

\* A failure at the threshold was followed by the notification and the two
\* sleeps, and the next cycle is about to begin.
C12_Witness ==
  /\ pc = "fetch_and_store"
  /\ health.is_running
  /\ health.consecutive_failures >= max_consecutive_failures
  /\ Len(Sleeps(trail)) = 2

\* C13: from a fresh Scheduler with max_consecutive_failures = 3 and
\* error_cooldown_sec = 30, after three failed cycles in a row the backoff
\* sleep before the fourth attempt is 120 seconds and exactly one critical
\* notification has been emitted so far.
C13_ThirdFailureBacksOff120 ==
  ( /\ health.last_successful_run = None
    /\ health.total_failures = 3
    /\ health.consecutive_failures = 3
    /\ pc \in { "sleep", "loop", "fetch_and_store", "stopped" } )
  => /\ critical = 1
     /\ Len(Sleeps(trail)) >= 1
     /\ Sleeps(trail)[1] = 120

\* Three failures from the start, and the fourth attempt is about to begin.
C13_Witness ==
  /\ pc = "fetch_and_store"
  /\ clock = 3
  /\ health.last_successful_run = None
  /\ health.total_failures = 3
  /\ critical = 1
  /\ Sleeps(trail) = << 120, 600 >>

\* C14 as claimed: in every cycle both sub-tasks are attempted, the
\* pipeline first and the trend detector second, also when the pipeline
\* raised.
C14_BothSubTasksAttempted ==
  pc \in { "success", "failure" }
    => cycle.attempted = << "fetch_and_store", "analysis" >>

\* C15: between the end of a cycle and the start of the next the loop
\* sleeps interval_sec, whatever the cycle's outcome; only the first cycle
\* begins without that sleep.
C15_IntervalSleepBetweenCycles ==
  [][ (pc' = "fetch_and_store" /\ pc # "fetch_and_store")
        => /\ pc = "loop"
           /\ \/ /\ clock = 0
                 /\ trail = <<>>
                 /\ health.total_failures = 0
                 /\ health.last_successful_run = None
              \/ /\ trail # <<>>
                 /\ trail[Len(trail)] = Slept(interval_sec) ]_vars

\* A cycle begins after a failure at the threshold, its backoff and the
\* interval sleep.
C15_Witness ==
  /\ pc = "fetch_and_store"
  /\ health.consecutive_failures = max_consecutive_failures
  /\ Len(trail) = 4
  /\ trail[4] = Slept(interval_sec)
  /\ trail[3].kind = "sleep"

\* C16: no exception of a cycle leaves Scheduler.run, be it raised by the
\* pipeline, by the detector or by a notification send: after a failed
\* cycle the loop goes through its backoff and sleep and, unless a shutdown
\* was signalled, begins another cycle.
C16_LoopSurvivesExceptions ==
  [][ /\ pc' # "crashed"
      /\ cycle'.raised # "none" => pc' = "failure"
      /\ (pc = "failure" /\ pc' # pc) => pc' \in { "backoff", "sleep" }
      /\ (pc = "backoff" /\ pc' # pc) => pc' = "sleep"
      /\ (pc = "sleep" /\ pc' # pc) => pc' = "loop"
      /\ (pc = "loop" /\ pc' # pc)
           => pc' = IF health.is_running THEN "fetch_and_store"
                    ELSE "stopped"
      /\ (pc' = "stopped" /\ pc # "stopped")
           => pc = "loop" /\ ~health.is_running /\ signalled ]_vars

\* After a cycle whose error notification raised in the send, the next
\* cycle is about to begin.
C16_Witness ==
  /\ pc = "fetch_and_store"
  /\ health.consecutive_failures >= 1
  /\ \E i \in DOMAIN trail : trail[i].kind = "error" /\ trail[i].raised

\* C17 as claimed: once a shutdown signal has been handled, at any time
\* after the handlers were installed, is_running is false and stays so, and
\* no cycle is begun afterwards.
C17_StoppedOnceSignalled ==
  [][ /\ signalled' => ~health'.is_running
      /\ (signalled /\ pc = "loop") => pc' # "fetch_and_store" ]_vars

\* C25 as claimed: at the end of every cycle tokens_processed equals the
\* number of assets taken from the feed, and every processed asset is
\* counted in exactly one of filtered, stored or updated:
\* processed = filtered + stored + updated.
C25_CountersAccountForEveryAsset ==
  pc = "summary"
    => /\ counters.tokens_processed = cycle.listed
       /\ counters.tokens_processed =
            counters.tokens_filtered + counters.tokens_stored
              + counters.tokens_updated

(***************************************************************************)
(* Properties of the two threads, under PollSpec and PollFairSpec.         *)
(***************************************************************************)
PollExited == task_runner.message_thread \in { "none", "exited" }

\* C18: after a shutdown signal handled while the loop is running, run()
\* eventually returns; whenever run() has returned the stop flag is set; and
\* the poll task then eventually exits.
C18_RunReturnsAndPollStops ==
  /\ (~health.is_running /\ pc \notin { "init", "stopped" }) ~> (pc = "stopped")
  /\ [](pc = "stopped" => task_runner.should_stop)
  /\ (pc = "stopped") ~> PollExited

\* run() has returned after a signal and the poll thread, which was
\* started, has exited.
C18_Witness ==
  /\ pc = "stopped"
  /\ signalled
  /\ task_runner.should_stop
  /\ task_runner.message_thread = "exited"

\* C19: a step of the poll task, failing or not, changes no field of
\* SchedulerHealth and nothing of the main loop (its position, its sleeps,
\* its clock); after a failure the poll task waits its own fixed delay and
\* polls again; SchedulerHealth is written only by the main loop and the
\* shutdown handler.
C19_PollLeavesHealthAlone ==
  [][ /\ task_runner'.message_thread # task_runner.message_thread
           /\ task_runner.message_thread # "none"
        => /\ health' = health
           /\ pc' = pc
           /\ trail' = trail
           /\ clock' = clock
           /\ critical' = critical
      /\ task_runner'.delay # task_runner.delay
        => \/ /\ task_runner.message_thread = "get"
              /\ task_runner'.message_thread = "sleep"
              /\ task_runner'.delay \in { poll_delay_sec, poll_error_delay_sec }
           \/ /\ task_runner.message_thread = "sleep"
              /\ task_runner'.message_thread = "check"
              /\ task_runner'.delay = 0
      /\ health' # health
        => /\ task_runner'.message_thread = task_runner.message_thread
              \/ task_runner.message_thread = "none"
           /\ task_runner'.delay = task_runner.delay ]_vars

\* While a cycle has failed and the loop sleeps, the poll task is waiting
\* after an error of its own.
C19_Witness ==
  /\ pc = "sleep"
  /\ health.consecutive_failures = 1
  /\ health.total_failures = 1
  /\ task_runner.message_thread = "sleep"
  /\ task_runner.delay = poll_error_delay_sec

(***************************************************************************)
(* Properties of passes_filters, under FilterSpec.                         *)
(***************************************************************************)
\* The bound a filter key stands for: its value, or the default if absent.
BoundOf(v, default) == IF v = None THEN default ELSE v

\* C20: passes(price, volume, liquidity, cfg) is true exactly when
\* min_price_usd <= price <= max_price_usd, volume >= min_volume_usd and
\* liquidity >= min_liquidity_usd, absent keys standing for 0, +infinity, 0
\* and 0; the call changes nothing else.
C20_PassesExactlyWithinBounds ==
  [][ call'.done
        => /\ call'.result =
                ( /\ BoundOf(call.filters.min_price_usd, 0) <= call.price_usd
                  /\ \/ call.filters.max_price_usd = None
                     \/ call.price_usd <= call.filters.max_price_usd
                  /\ call.volume_usd >= BoundOf(call.filters.min_volume_usd, 0)
                  /\ call.liquidity_usd
                       >= BoundOf(call.filters.min_liquidity_usd, 0) )
           /\ call' = [call EXCEPT !.done = TRUE, !.result = call'.result]
           /\ UNCHANGED << config, horizon, utc_offset, market, outcomes, clock, pc, health, db, pipeVars,
                           alerts, fed, cycle, task_runner, signalled, trail,
                           critical >> ]_vars

\* A call that passes with the volume on its bound, the price bounds absent.
C20_Witness ==
  /\ call.done
  /\ call.result
  /\ call.filters.min_price_usd = None
  /\ call.filters.max_price_usd = None
  /\ call.filters.min_volume_usd = 1
  /\ call.volume_usd = 1
  /\ call.filters.min_liquidity_usd = 2
  /\ call.liquidity_usd = 2

(***************************************************************************)
(* Properties of the missing-metric check and passes_filters, under        *)
(* GateSpec.                                                               *)
(***************************************************************************)
SomeMetricZero ==
  call.price_usd = 0 \/ call.volume_usd = 0 \/ call.liquidity_usd = 0

\* Every metric lies strictly inside its bounds, absent keys standing for
\* 0, +infinity, 0 and 0.
Interior ==
  /\ BoundOf(call.filters.min_price_usd, 0) < call.price_usd
  /\ \/ call.filters.max_price_usd = None
     \/ call.price_usd < call.filters.max_price_usd
  /\ BoundOf(call.filters.min_volume_usd, 0) < call.volume_usd
  /\ BoundOf(call.filters.min_liquidity_usd, 0) < call.liquidity_usd

\* C21 as claimed: passes(price, volume, liquidity, cfg) is false whenever
\* any one of the three metrics is exactly zero, even if the configured
\* minimum is zero.
C21_PassesFalseOnZero ==
  (call.done /\ SomeMetricZero) => ~call.result

\* C21 as amended: an asset one of whose three metrics is exactly zero is
\* rejected by the missing-metric check that precedes passes_filters, also
\* when the configured minimum is zero; passes_filters itself is a range
\* check and returns true for a zero metric within the bounds; when all
\* three metrics are interior to the bounds both checks pass.
C21_ZeroRejectedBeforeFilters ==
  /\ (call.stage # "" /\ SomeMetricZero) => call.stage = "missing_metrics"
  /\ (call.done /\ Interior) => call.result
  /\ (call.stage # "" /\ Interior) => call.stage = "ok"
  /\ ( /\ call.done
       /\ SomeMetricZero
       /\ BoundOf(call.filters.min_price_usd, 0) <= call.price_usd
       /\ BoundOf(call.filters.min_volume_usd, 0) = 0
       /\ BoundOf(call.filters.min_liquidity_usd, 0) = 0
       /\ call.filters.max_price_usd = None ) => call.result

\* A zero volume with the minimum configured as zero: passes_filters
\* returned true and the missing-metric check rejected the asset.
C21_Witness ==
  /\ call.done
  /\ call.result
  /\ call.stage = "missing_metrics"
  /\ call.volume_usd = 0
  /\ call.filters.min_volume_usd = 0
  /\ call.price_usd > 0
  /\ call.liquidity_usd > 0

(***************************************************************************)
(* Properties of the best-pair scan, under PairSpec.                       *)
(***************************************************************************)
\* The pairs whose liquidity is a number above zero.
WithLiquidity(pairs) ==
  { i \in DOMAIN pairs :
      /\ pairs[i].liq \notin { None, Unparseable }
      /\ pairs[i].liq > 0 }

\* C24: for every non-empty list of pairs the selected pair has the
\* numerically highest USD liquidity and is the first in feed order among
\* equals; a pair whose liquidity is missing, unparseable or not positive
\* is never selected; when no pair has a positive liquidity the asset is
\* rejected.
C24_HighestLiquidityFirstAmongEquals ==
  (call.done /\ Len(call.pairs) > 0)
    => IF WithLiquidity(call.pairs) = {}
       THEN call.best = 0 /\ call.stage = "no_liquidity"
       ELSE /\ call.best \in WithLiquidity(call.pairs)
            /\ call.stage \notin { "no_pairs", "no_liquidity" }
            /\ \A i \in WithLiquidity(call.pairs) :
                 /\ call.pairs[i].liq <= call.pairs[call.best].liq
                 /\ call.pairs[i].liq = call.pairs[call.best].liq
                      => call.best <= i

\* Of two pairs with the highest liquidity the first was selected, after a
\* pair whose liquidity does not parse.
C24_Witness ==
  /\ call.done
  /\ Len(call.pairs) = 3
  /\ call.pairs[1].liq = Unparseable
  /\ call.pairs[2].liq = 2
  /\ call.pairs[3].liq = 2
  /\ call.best = 2

(***************************************************************************)
(* Properties of the risk adapter and the risk levels, under RiskSpec.     *)
(***************************************************************************)
\* The maximum acceptable score the service was configured with.
ConfiguredMaximum ==
  IF call.max_risk_score = None THEN 1000 ELSE call.max_risk_score

\* C22 as claimed: for every configured maximum m >= 0 and every score s
\* the collaborator returns, is_safe equals (s <= m); m is 1000 when no
\* maximum is configured.
C22_SafeIffWithinMaximum ==
  (call.done /\ ~call.assessment.raised)
    => call.assessment.is_safe = (call.outcome.score <= ConfiguredMaximum)

\* The level of a score by the bands LOW [0,500), MEDIUM [500,750),
\* HIGH [750,1000), CRITICAL [1000,infinity).
BandOf(s) ==
  CHOOSE level \in { "LOW", "MEDIUM", "HIGH", "CRITICAL" } :
    /\ level = "LOW" <=> (0 <= s /\ s < 500)
    /\ level = "MEDIUM" <=> (500 <= s /\ s < 750)
    /\ level = "HIGH" <=> (750 <= s /\ s < 1000)
    /\ level = "CRITICAL" <=> 1000 <= s

\* C23: the level of a score is determined by the score and follows the
\* bands; RiskAssessment.get_risk_level, the new-token alert, the trend
\* detector and the command formatter give the same level for every score.
C23_FourLevelsAgree ==
  call.levels # NoLevels
    => /\ call.levels.assessment = BandOf(call.outcome.score)
       /\ call.levels.alert = call.levels.assessment
       /\ call.levels.trend = call.levels.assessment
       /\ call.levels.command = call.levels.assessment

\* The score 1000, on the edge of the last band, is CRITICAL in all four.
C23_Witness ==
  /\ call.outcome.score = 1000
  /\ call.levels =
       [assessment |-> "CRITICAL", alert |-> "CRITICAL",
        trend |-> "CRITICAL", command |-> "CRITICAL"]

(***************************************************************************)
(* Properties of the trend detector, under TrendSpec and RankSpec.         *)
(***************************************************************************)
\* The stored observations of asset a within the window of the call, and
\* the chronologically earliest and latest of a set of rows.
ObservedInWindow(a) ==
  { r \in InWindow(db, clock, call.lookback_minutes) : IdentityOf(r) = a }

Earliest(rows) ==
  CHOOSE r \in rows : \A o \in rows : r.timestamp <= o.timestamp

Latest(rows) ==
  CHOOSE r \in rows : \A o \in rows : o.timestamp <= r.timestamp

RowOf(id) == CHOOSE r \in db : r.id = id

Present(v) == v # None

\* The output lists asset a.
FlaggedAsset(a) ==
  \E i \in DOMAIN call.result :
    /\ call.result[i].token_address = a.token_address
    /\ call.result[i].chain_id = a.chain_id

\* C26 as claimed: an asset with at least two observations in the window
\* and a positive first price is flagged if and only if
\* (last.price - first.price) / first.price * 100 >= minPriceIncreasePercent
\* and last.volume >= minVolumeUsd, first and last being its earliest and
\* latest observations in the window; an asset with fewer than two
\* observations is never flagged.
C26_FlaggedIffRoseFirstToLast ==
  call.done
    => \A a \in Identities :
         LET seen == ObservedInWindow(a) IN
           /\ Cardinality(seen) < 2 => ~FlaggedAsset(a)
           /\ (Cardinality(seen) >= 2 /\ Earliest(seen).price_usd > 0)
                => ( FlaggedAsset(a)
                       <=> /\ Present(Latest(seen).price_usd)
                           /\ (Latest(seen).price_usd
                                 - Earliest(seen).price_usd) * 100
                                >= call.min_price_increase_percent
                                     * Earliest(seen).price_usd
                           /\ Present(Latest(seen).volume_usd)
                           /\ Latest(seen).volume_usd >= call.min_volume_usd )

\* C27 as claimed: observations of two different identities
\* (chain_id, token_address) are never combined into one price delta, also
\* when they share the token_address on different chains.
C27_OneIdentityPerDelta ==
  call.done
    => \A i \in DOMAIN call.result :
         IdentityOf(RowOf(call.result[i].first))
           = IdentityOf(RowOf(call.result[i].last))

\* C28 as claimed: an asset whose first observation in the window has a
\* missing, zero or negative price is never flagged, and no price change is
\* computed from a non-positive base price.
C28_NonPositiveBaseSkipped ==
  call.done
    => /\ \A i \in DOMAIN call.result :
            /\ Present(call.result[i].initial_price)
            /\ call.result[i].initial_price > 0
       /\ \A a \in Identities :
            ( /\ ObservedInWindow(a) # {}
              /\ ~(Earliest(ObservedInWindow(a)).price_usd > 0) )
              => ~FlaggedAsset(a)

\* C29: the output list is ordered by price_change_percent, non-increasing,
\* lists each flagged token exactly once, and the call changes no stored
\* row.
C29_RankedOnceReadOnly ==
  [][ (call'.done /\ ~call.done)
        => /\ \A i, j \in DOMAIN call'.result :
                i < j => NotBelow(call'.result[i].price_change_percent,
                                  call'.result[j].price_change_percent)
           /\ \A key \in { r.token_address : r \in db } :
                Cardinality({ i \in DOMAIN call'.result :
                                call'.result[i].token_address = key })
                  = IF IsPumped(History(call'.snapshots, key),
                                call.min_price_increase_percent,
                                call.min_volume_usd)
                    THEN 1 ELSE 0
           /\ \A i \in DOMAIN call'.result :
                \E r \in db : r.token_address = call'.result[i].token_address
           /\ db' = db ]_vars

\* Token A rose by 60 percent and token B, first seen after A, by 100: B is
\* listed before A.
C29_Witness ==
  /\ call.done
  /\ Len(call.result) = 2
  /\ call.result[1].token_address = "B"
  /\ call.result[1].price_change_percent = [num |-> 500, den |-> 5]
  /\ call.result[2].token_address = "A"
  /\ call.result[2].price_change_percent = [num |-> 300, den |-> 5]
  /\ RowOf(1).token_address = "A"

(***************************************************************************)
(* Properties of the timestamps, under ClockSpec.                          *)
(***************************************************************************)
\* C30 as claimed: the timestamps the pipeline writes on insert and on
\* update and the detector's "now" are readings of one clock: a row's
\* timestamp never moves backwards when the row is updated, and a detector
\* run at time T with lookback L examines exactly the rows last written at
\* a time t >= T - L.  Every row of the table was last written at one of
\* the readings 0 .. clock, and clock stays below the lookback, so every
\* row is due to be examined.
C30_OneClockNeverBackwards ==
  [][ /\ \A r \in db, w \in db' :
           r.id = w.id => w.timestamp >= r.timestamp
      /\ (pc = "analysis" /\ pc' = "success" /\ clock < LookbackReadings)
           => cycle'.examined = { r.id : r \in db } ]_vars

(***************************************************************************)
(* Properties of FloatSpec.                                                *)
(***************************************************************************)
\* The power of ten a suffix stands for, 0 for any other character.
SuffixPower(c) ==
  IF c = "k" THEN 3 ELSE IF c = "m" THEN 6 ELSE IF c = "b" THEN 9 ELSE 0

\* The float nearest to coef * 10^exp, `missing` when the text is no number.
NumberOrMissing(text, power, missing) ==
  IF DecimalOf(text).raised # "" THEN missing
  ELSE FloatOf([DecimalOf(text) EXCEPT
                  !.exp = IF DecimalOf(text).coef = 0 THEN @ ELSE @ + power])

\* The reference: what normalize gives for a value, `missing` being the
\* default.
Normalized(value, missing) ==
  IF value.type = "none" THEN missing
  ELSE IF value.type = "number"
  THEN FloatOf(DecimalOfNumber(value))
  ELSE LET text == Lower(Strip(value.chars))
       IN IF text = << >> THEN missing
          ELSE IF SuffixPower(text[Len(text)]) # 0
          THEN NumberOrMissing(ButLast(text), SuffixPower(text[Len(text)]),
                               missing)
          ELSE NumberOrMissing(text, 0, missing)

\* C31 as claimed: on every input safe_float returns what the reference
\* gives: the default for a null, empty or unparseable input, the numeric
\* prefix times 10^3, 10^6 or 10^9 for a prefix followed by k, m or b in
\* either case, the value itself for any other numeric input; and the call
\* changes nothing else.
C31_AgreesWithReference ==
  call.done => call.result = Returned(Normalized(call.value, call.default))

(***************************************************************************)
(* Properties of SendSpec.                                                 *)
(***************************************************************************)
\* The first of the max_retries posts that would succeed, 0 if none would.
FirstSuccess(posts, max_retries) ==
  IF \E i \in 1 .. max_retries : posts[i] = "ok"
  THEN CHOOSE i \in 1 .. max_retries :
         posts[i] = "ok" /\ \A j \in 1 .. (i - 1) : posts[j] # "ok"
  ELSE 0

\* C32: one call of send_message makes at most max_retries posts, returns
\* True at the first post that succeeds and makes no post after it, returns
\* False after max_retries failed posts, and at once, with no post, for an
\* empty message; it sleeps between no two posts and never raises.
C32_SendBestEffort ==
  call.done =>
    LET r == call.result
        first == FirstSuccess(call.posts, call.max_retries)
    IN /\ ~r.raised
       /\ r.attempts <= call.max_retries
       /\ r.sleeps = << >>
       /\ call.message = "" => ~r.returned /\ r.attempts = 0
       /\ (call.message # "" /\ first # 0)
            => r.returned /\ r.attempts = first
       /\ (call.message # "" /\ first = 0)
            => ~r.returned /\ r.attempts = call.max_retries

\* Two posts failed and the third succeeded.
C32_Witness ==
  /\ call.done
  /\ call.message # ""
  /\ call.max_retries = 3
  /\ call.posts[1] # "ok" /\ call.posts[2] # "ok" /\ call.posts[3] = "ok"
  /\ call.result.returned
  /\ call.result.attempts = 3

(***************************************************************************)
(* Properties of MarketSpec.                                               *)
(***************************************************************************)
\* C33 as claimed: whatever the feed reports and whatever the filters are
\* configured to, every row the pipeline inserted or updated holds a
\* price_usd, a volume_usd and a liquidity_usd that are not negative.
C33_StoredAmountsNonNegative ==
  \A r \in db :
    r.price_usd >= 0 /\ r.volume_usd >= 0 /\ r.liquidity_usd >= 0

(***************************************************************************)
(* Properties of RoundTripSpec.                                            *)
(***************************************************************************)
\* The number the feed's price text denotes.
Denoted(price) ==
  LET d == Normal(TimesPowerOfTen(
                    DecimalOf(IF SuffixPower(Lower(price)[Len(price)]) # 0
                              THEN ButLast(price) ELSE price),
                    SuffixPower(Lower(price)[Len(price)])))
  IN NumberValue(d.coef, d.exp)

\* C34: a snapshot that was inserted and is read back by its identity has
\* the field values it was inserted with, and its price_usd is the price
\* the feed reported, to nine significant digits and more: a price such as
\* 0.000000123456789 comes back whole.
C34_RoundTripKeepsPrice ==
  call.read =>
    /\ call.row = call.snapshot
    /\ IdentityOf(call.row) = call.profile
    /\ DigitCount(Magnitude(Denoted(call.price.chars).coef)) <= 9
         => call.row.price_usd = Denoted(call.price.chars)

\* The price 0.000000123456789 was stored and read back.
C34_Witness ==
  /\ call.read
  /\ Len(call.price.chars) = 17
  /\ call.row.price_usd = NumberValue(123456789, 0 - 15)
  /\ call.row.volume_usd = NumberValue(987654321, 0 - 2)

(***************************************************************************)
(* Properties of the update in place.                                      *)
(***************************************************************************)
\* C35: when the asset has a stored row, the committed update overwrites
\* price_usd, volume_usd, liquidity_usd, the risk data and the timestamp of
\* that row with the values of this cycle and leaves its id, its identity,
\* its name and the other fields taken from the profile, and every other
\* row, as they were.
C35_UpdateOverwritesMarketFieldsOnly ==
  [][ (/\ pc = "store"
       /\ ctx.existing # None
       /\ counters'.tokens_updated # counters.tokens_updated)
        => \E r \in db, w \in db' :
             /\ r.id = ctx.existing
             /\ w.id = r.id
             /\ w.price_usd = ctx.price_usd
             /\ w.volume_usd = ctx.volume_usd
             /\ w.liquidity_usd = ctx.liquidity_usd
             /\ w.risk_score = ctx.score
             /\ w.timestamp = clock
             /\ w.chain_id = r.chain_id
             /\ w.token_address = r.token_address
             /\ w.token_name = r.token_name
             /\ db' \ {w} = db \ {r} ]_vars

\* In the second cycle the row of the first was updated to another price;
\* it keeps the name it was listed under.
C35_Witness ==
  /\ pc = "summary"
  /\ clock = 1
  /\ counters.tokens_updated = 1
  /\ \E w \in db :
       /\ w.timestamp = 1 /\ w.token_name = ProfileName(w, 0)
       /\ w.token_name # ProfileName(w, clock)
       /\ w.price_usd = 2 /\ w.liquidity_usd = 2

(***************************************************************************)
(* Properties of the failure counters.                                     *)
(***************************************************************************)
\* The cycles that raised, and those that raised since the last one that
\* returned.
FailedCycles == { i \in DOMAIN outcomes : outcomes[i] = "raised" }
FailedSinceSuccess ==
  { i \in FailedCycles :
      \A j \in i .. Len(outcomes) : outcomes[j] = "raised" }

\* C36: total_failures is the number of cycles that failed since the start
\* and never decreases; consecutive_failures is the number of cycles that
\* failed since the last successful one, or since the start; so
\* 0 <= consecutive_failures <= total_failures.
C36_CountersCountFailedCycles ==
  /\ [](/\ health.total_failures = Cardinality(FailedCycles)
        /\ health.consecutive_failures = Cardinality(FailedSinceSuccess)
        /\ 0 <= health.consecutive_failures
        /\ health.consecutive_failures <= health.total_failures)
  /\ [][health'.total_failures >= health.total_failures]_vars

\* A failed cycle, a successful one and another failed one.
C36_Witness ==
  /\ outcomes = << "raised", "returned", "raised" >>
  /\ health.total_failures = 2
  /\ health.consecutive_failures = 1

(***************************************************************************)
(* Properties of PumpSpec.                                                 *)
(***************************************************************************)
\* The "Token Alert" notifications of the cycle.
PumpAlerts(t) == { i \in DOMAIN t : t[i].kind = "pump" }

\* Two rows with one token_address, both written within the lookback.
SharedAddressInWindow ==
  \E r1, r2 \in db :
    /\ r1.id # r2.id
    /\ r1.token_address = r2.token_address
    /\ r1.timestamp >= clock - LookbackReadings
    /\ r2.timestamp >= clock - LookbackReadings

\* C37: with the pipeline as the only writer of the table, run_analysis
\* flags nothing while no two rows share a token_address, and sends a pump
\* alert only when two rows with one token_address have their timestamps
\* within the lookback.
C37_PumpNeedsSharedAddress ==
  [][ (pc = "analysis" /\ pc' = "success")
        => /\ (\A r1, r2 \in db :
                 r1.token_address = r2.token_address => r1 = r2)
                => trail' = trail
           /\ PumpAlerts(trail') # PumpAlerts(trail)
                => SharedAddressInWindow ]_vars

\* A pump alert went out for an address that two rows, one per chain,
\* share.
C37_Witness ==
  /\ pc = "success"
  /\ PumpAlerts(trail) # {}
  /\ Cardinality(db) = 2
  /\ \A r1, r2 \in db : r1.token_address = r2.token_address

(***************************************************************************)
(* Properties of Spec: the risk stage and what reaches the table.          *)
(***************************************************************************)
AcceptedLevels == { "LOW", "MEDIUM", "HIGH" }

\* C38: with the maximum acceptable score at its default, every token that
\* passed the risk check has risk level LOW, MEDIUM or HIGH; no row in the
\* table and no new-token alert carries the level CRITICAL.
C38_SafeNeverCritical ==
  config.rugcheck = DEFAULT_MAX_SCORE
    => /\ ctx.is_safe => get_risk_level(ctx.score) \in AcceptedLevels
       /\ \A r \in db : get_risk_level(r.risk_score) \in AcceptedLevels
       /\ pc = "notify" => alert_risk_level(ctx.score) \in AcceptedLevels

\* C39: when the rugcheck section is empty, no cycle inserts or updates a
\* row or sends a new-token alert, and every token that reaches the risk
\* stage is counted as filtered and goes no further.
C39_UnconfiguredRiskFiltersAll ==
  /\ [](config.rugcheck = None
          => /\ db = {}
             /\ \A p \in DOMAIN alerts : alerts[p] = 0
             /\ counters.tokens_stored = 0
             /\ counters.tokens_updated = 0
             /\ pc \notin { "store", "notify" })
  /\ [][ (config.rugcheck = None /\ pc = "risk" /\ pc' # pc)
           => /\ counters' = Tally(counters, "tokens_filtered")
              /\ pc' = AfterProfile(profiles)
              /\ UNCHANGED << db, alerts >> ]_vars

\* In a later cycle without a risk service both listed tokens were counted
\* as filtered and the table is still empty.
C39_Witness ==
  /\ config.rugcheck = None
  /\ clock >= 1
  /\ pc = "summary"
  /\ counters = [tokens_processed |-> 2, tokens_filtered |-> 2,
                 tokens_stored |-> 0, tokens_updated |-> 0]
  /\ db = {}

(***************************************************************************)
(* Properties of the poll task's update offset, under PollFairSpec.        *)
(***************************************************************************)
\* The update with this update_id has been acknowledged, or the poll task
\* has ended.
Acknowledged(k) == task_runner.last_update_id >= k \/ PollExited

\* C40: last_update_id never decreases, and every update a getUpdates call
\* has returned is eventually acknowledged (a later call asks for an offset
\* above it), also when handling it raised, unless the poll task ends.
C40_FetchedUpdatesAcknowledged ==
  /\ [][task_runner'.last_update_id >= task_runner.last_update_id]_vars
  /\ \A k \in 1..MaxUpdates :
       [](task_runner.fetched >= k => <>Acknowledged(k))
====
